---- MODULE Spec2Model ----
(***************************************************************************)
(* Hybrid inference routing, circuit breaker, knowledge ingestion and       *)
(* presence of the local media bridge (scripts/local_media_bridge.py).     *)
(*                                                                         *)
(* The specifications share the state:                                     *)
(*   Spec          concurrent chat requests running _hybrid_chat and       *)
(*                 _chat_with_ollama against the process-wide breaker;     *)
(*   SpecRoute     the routing decision (_should_use_cloud and line 354 of *)
(*                 _hybrid_chat) applied to message lists and options;     *)
(*   SpecReroute   the same decision re-evaluated while other calls open   *)
(*                 and close the circuit;                                  *)
(*   SpecServe     the chat endpoints (local_ai_chat, hybrid_chat_endpoint *)
(*                 and chat) serving one request at a time;                *)
(*   SpecUrl       _is_public_http_url applied to URLs;                    *)
(*   SpecChunk     _chunk_text applied to texts;                           *)
(*   SpecKnowledge local_ai_knowledge_ingest, proxy and fetch_page serving *)
(*                 one request at a time;                                  *)
(*   SpecIngest    ingest requests one after the other into a store that   *)
(*                 keeps what it is sent;                                  *)
(*   SpecPresence  the Socket.IO handlers connect, disconnect, presence    *)
(*                 join, update and leave and typing start and stop, for   *)
(*                 two sessions;                                           *)
(*   SpecNotify    the notification event and send_notification among      *)
(*                 connects, joins and disconnects of two sessions;        *)
(*   SpecStream    the generator of a streamed /api/chat response, one     *)
(*                 action per yield, scheduled fairly.                     *)
(* Python strings are TLA+ strings; time.time() is the integer clock now   *)
(* (seconds).                                                              *)
(***************************************************************************)
EXTENDS Integers, Sequences, FiniteSets, TLC

VARIABLES
    OLLAMA_FAILURE_COUNT,       \* module global, line 56
    OLLAMA_CIRCUIT_OPEN_UNTIL,  \* module global, line 57
    MOONSHOT_API_KEY,           \* os.environ['MOONSHOT_API_KEY'] ("" = unset)
    now,                        \* time.time()
    pc,                         \* per request: the await it is suspended at
    frame,                      \* per request: locals live across the awaits
    result,                     \* output: what the step just taken returned
    failedSinceSuccess,         \* history: failed local calls since the last success
    trippedAt,                  \* history: when a THRESHOLD-th failure in a row last completed
    route_args,                 \* SpecRoute: the arguments _hybrid_chat is called with
    use_cloud,                  \* SpecRoute: use_cloud of each call so far, in order
    caller,                     \* per request: locals of the endpoint handler and of
                                \* _hybrid_chat that are live across the awaits
    response,                   \* output: the HTTP response the step just taken returned
    raw_url,                    \* SpecUrl: the argument of _is_public_http_url
    is_public,                  \* SpecUrl: what it returned
    document_text,              \* SpecChunk: the argument of _chunk_text
    chunks,                     \* SpecChunk: what it returned
    OPENAI_API_KEY,             \* os.environ['OPENAI_API_KEY'] ("" = unset)
    qdrant,                     \* the vector store: its collection and the points in it
    uuid_count,                 \* how many identifiers uuid.uuid4() has handed out
    served,                     \* history: requests to the knowledge handlers so far
    request,                    \* output: the request the step just taken received
    job,                        \* the ingest, proxy or fetch-page handler in progress
    outbound,                   \* output: the requests the step just taken sent out
    sockets,                    \* the Socket.IO sessions whose transport is open
    connected_clients,          \* module global, line 48: sid -> session, in insertion order
    presence_data,              \* module global, line 49: userId -> record, in insertion order
    sio_pc,                     \* per handler: the emit it is suspended at
    emitted,                    \* output: what the step just taken emitted
    leaves,                     \* history: userIds whose presence_leave was broadcast
                                \* since they last joined
    written_by,                 \* history: of the records there are, the session still
                                \* open whose join wrote it
    event_stream                \* SpecStream: the generator of a streamed chat response

vars == <<OLLAMA_FAILURE_COUNT, OLLAMA_CIRCUIT_OPEN_UNTIL, MOONSHOT_API_KEY,
          now, pc, frame, result, failedSinceSuccess, trippedAt,
          route_args, use_cloud, caller, response,
          raw_url, is_public, document_text, chunks, OPENAI_API_KEY, qdrant,
          uuid_count, served, request, job, outbound,
          sockets, connected_clients, presence_data, sio_pc, emitted,
          leaves, written_by, event_stream>>

breakerVars == <<OLLAMA_FAILURE_COUNT, OLLAMA_CIRCUIT_OPEN_UNTIL>>
requestVars == <<pc, frame>>
historyVars == <<failedSinceSuccess, trippedAt>>
routeVars   == <<route_args, use_cloud>>
serveVars   == <<caller, response>>
knowledgeVars == <<raw_url, is_public, document_text, chunks, OPENAI_API_KEY,
                   qdrant, uuid_count, served, request, job, outbound>>
presenceVars == <<sockets, connected_clients, presence_data, sio_pc, emitted,
                  leaves, written_by>>

-----------------------------------------------------------------------------
(* Strings                                                                 *)

ASCII_UPPERCASE == "ABCDEFGHIJKLMNOPQRSTUVWXYZ"
ASCII_LOWERCASE == "abcdefghijklmnopqrstuvwxyz"

\* the lowercase letter of each uppercase letter
LowerOf ==
    LET upper == { SubSeq(ASCII_UPPERCASE, i, i) : i \in 1..Len(ASCII_UPPERCASE) }
    IN  [c \in upper |->
            LET i == CHOOSE j \in 1..Len(ASCII_UPPERCASE) : SubSeq(ASCII_UPPERCASE, j, j) = c
            IN  SubSeq(ASCII_LOWERCASE, i, i)]

\* c.lower() of one character
LowerChar(c) == IF c \in DOMAIN LowerOf THEN LowerOf[c] ELSE c

\* str.lower()
RECURSIVE Lower(_)
Lower(s) ==
    IF Len(s) = 0 THEN ""
    ELSE IF Len(s) = 1 THEN LowerChar(s)
    ELSE LET h == Len(s) \div 2
         IN  Lower(SubSeq(s, 1, h)) \o Lower(SubSeq(s, h + 1, Len(s)))

\* `k in t` for strings
Contains(t, k) ==
    \E i \in 1..(Len(t) - Len(k) + 1) : SubSeq(t, i, i + Len(k) - 1) = k

\* ' '.join(parts)
RECURSIVE JoinSpace(_)
JoinSpace(parts) ==
    IF Len(parts) = 0 THEN ""
    ELSE IF Len(parts) = 1 THEN parts[1]
    ELSE parts[1] \o " " \o JoinSpace(Tail(parts))

\* c * n
RECURSIVE Repeat(_, _)
Repeat(c, n) ==
    IF n = 0 THEN ""
    ELSE IF n = 1 THEN c
    ELSE LET h == Repeat(c, n \div 2)
         IN  IF n % 2 = 0 THEN h \o h ELSE h \o h \o c

-----------------------------------------------------------------------------
(* Routing decision                                                        *)

COMPLEX_TASK_KEYWORDS ==
    << "agent swarm", "multi-agent", "parallel agents", "coordinate agents",
       "complex analysis", "deep research", "comprehensive", "thorough investigation",
       "analyze image", "analyze video", "vision", "look at this",
       "step by step plan", "detailed breakdown", "orchestrate" >>

LENGTH_THRESHOLD == 8000

RECENT_MESSAGES == 3

\* messages[-3:]
LastMessages(messages) ==
    IF Len(messages) <= RECENT_MESSAGES THEN messages
    ELSE SubSeq(messages, Len(messages) - RECENT_MESSAGES + 1, Len(messages))

\* mutant: the recent content is not lowercased
RecentContentCaseSensitive(messages) ==
    LET recent == LastMessages(messages)
    IN  JoinSpace([i \in 1..Len(recent) |-> recent[i].content])

\* ' '.join([m.get('content', '') for m in messages[-3:] ...]).lower()
RecentContent(messages) ==
    LET recent == LastMessages(messages)
    IN  Lower(JoinSpace([i \in 1..Len(recent) |-> recent[i].content]))

\* sum(len(m.get('content', '')) for m in messages)
RECURSIVE TotalLength(_)
TotalLength(messages) ==
    IF Len(messages) = 0 THEN 0
    ELSE Len(messages[1].content) + TotalLength(Tail(messages))

\* mutant: a total of exactly the threshold already selects cloud
ShouldUseCloudAtThreshold(messages, force_cloud) ==
    IF force_cloud THEN TRUE
    ELSE IF MOONSHOT_API_KEY = "" THEN FALSE
    ELSE LET recent_content == RecentContent(messages)
         IN  IF \E k \in 1..Len(COMPLEX_TASK_KEYWORDS) :
                    Contains(recent_content, COMPLEX_TASK_KEYWORDS[k])
             THEN TRUE
             ELSE TotalLength(messages) >= LENGTH_THRESHOLD

\* mutant: an open circuit sends the request to the cloud
ShouldUseCloudWhenCircuitOpen(messages, force_cloud) ==
    IF force_cloud THEN TRUE
    ELSE IF MOONSHOT_API_KEY = "" THEN FALSE
    ELSE IF now < OLLAMA_CIRCUIT_OPEN_UNTIL THEN TRUE
    ELSE LET recent_content == RecentContent(messages)
         IN  IF \E k \in 1..Len(COMPLEX_TASK_KEYWORDS) :
                    Contains(recent_content, COMPLEX_TASK_KEYWORDS[k])
             THEN TRUE
             ELSE TotalLength(messages) > LENGTH_THRESHOLD

\* _should_use_cloud(messages, force_cloud)
ShouldUseCloud(messages, force_cloud) ==
    IF force_cloud THEN TRUE
    ELSE IF MOONSHOT_API_KEY = "" THEN FALSE
    ELSE LET recent_content == RecentContent(messages)
         IN  IF \E k \in 1..Len(COMPLEX_TASK_KEYWORDS) :
                    Contains(recent_content, COMPLEX_TASK_KEYWORDS[k])
             THEN TRUE
             ELSE TotalLength(messages) > LENGTH_THRESHOLD

\* mutant: force_cloud is looked at before force_local
HybridUseCloudCloudFirst(messages, force_local, force_cloud) ==
    force_cloud \/ ((~force_local) /\ ShouldUseCloud(messages, force_cloud))

\* use_cloud = not force_local and _should_use_cloud(messages, force_cloud)
HybridUseCloud(messages, force_local, force_cloud) ==
    (~force_local) /\ ShouldUseCloud(messages, force_cloud)

-----------------------------------------------------------------------------
(* Bounds of the model                                                     *)

NumRequests == 2      \* request slots that can be in flight together
MaxFailures == 4      \* failures are generated while the counter is below this
MaxEvaluations == 2   \* SpecRoute: calls made with the same arguments
MaxTime     == 40     \* the clock stops here
TickStep    == 10     \* seconds per clock step

Requests == 1..NumRequests

-----------------------------------------------------------------------------
(* Circuit breaker                                                         *)

CIRCUIT_FAILURE_THRESHOLD == 3
CIRCUIT_COOLDOWN_SECONDS  == 30

\* mutant: a half-open breaker, one probe at a time once it has tripped
AllowHalfOpen(t) ==
    /\ ~(t < OLLAMA_CIRCUIT_OPEN_UNTIL)
    /\ OLLAMA_FAILURE_COUNT >= CIRCUIT_FAILURE_THRESHOLD
          => \A r \in Requests : pc[r] \notin {"chat", "tags", "retry"}

\* line 169, negated: the call may contact the backend
Allow(t) == ~(t < OLLAMA_CIRCUIT_OPEN_UNTIL)

\* line 170
RetryIn(t) == OLLAMA_CIRCUIT_OPEN_UNTIL - t

\* mutant: a failure arriving while the circuit is open is not counted
FailureCountAfterFailureUnlessOpen ==
    IF now < OLLAMA_CIRCUIT_OPEN_UNTIL THEN OLLAMA_FAILURE_COUNT
    ELSE OLLAMA_FAILURE_COUNT + 1

\* lines 200 and 222
FailureCountAfterFailure == OLLAMA_FAILURE_COUNT + 1

\* mutant: the circuit opens only above the threshold
OpenUntilAfterFailureAboveThreshold(t) ==
    IF FailureCountAfterFailure > CIRCUIT_FAILURE_THRESHOLD
    THEN t + CIRCUIT_COOLDOWN_SECONDS
    ELSE OLLAMA_CIRCUIT_OPEN_UNTIL

\* lines 201-202 and 223-224
OpenUntilAfterFailure(t) ==
    IF FailureCountAfterFailure >= CIRCUIT_FAILURE_THRESHOLD
    THEN t + CIRCUIT_COOLDOWN_SECONDS
    ELSE OLLAMA_CIRCUIT_OPEN_UNTIL

\* mutant: any failure opens the circuit
RecordFailureOpeningAtOnce ==
    /\ OLLAMA_FAILURE_COUNT' = FailureCountAfterFailure
    /\ OLLAMA_CIRCUIT_OPEN_UNTIL' = now + CIRCUIT_COOLDOWN_SECONDS
    /\ failedSinceSuccess' = failedSinceSuccess + 1
    /\ trippedAt' = IF failedSinceSuccess + 1 = CIRCUIT_FAILURE_THRESHOLD
                    THEN now ELSE trippedAt

\* mutant: the first failure after the cooldown starts the count afresh
RecordFailureAfreshAfterCooldown ==
    /\ OLLAMA_FAILURE_COUNT' =
          IF OLLAMA_FAILURE_COUNT >= CIRCUIT_FAILURE_THRESHOLD /\ Allow(now)
          THEN 1 ELSE FailureCountAfterFailure
    /\ OLLAMA_CIRCUIT_OPEN_UNTIL' =
          IF OLLAMA_FAILURE_COUNT >= CIRCUIT_FAILURE_THRESHOLD /\ Allow(now)
          THEN OLLAMA_CIRCUIT_OPEN_UNTIL ELSE OpenUntilAfterFailure(now)
    /\ failedSinceSuccess' = failedSinceSuccess + 1
    /\ trippedAt' = IF failedSinceSuccess + 1 = CIRCUIT_FAILURE_THRESHOLD
                    THEN now ELSE trippedAt

\* lines 200-202, 222-224, with the history of the outcome
RecordFailure ==
    /\ OLLAMA_FAILURE_COUNT' = FailureCountAfterFailure
    /\ OLLAMA_CIRCUIT_OPEN_UNTIL' = OpenUntilAfterFailure(now)
    /\ failedSinceSuccess' = failedSinceSuccess + 1
    /\ trippedAt' = IF failedSinceSuccess + 1 = CIRCUIT_FAILURE_THRESHOLD
                    THEN now ELSE trippedAt

\* mutant: a success resets the count and leaves the circuit open
RecordSuccessKeepsOpenUntil ==
    /\ OLLAMA_FAILURE_COUNT' = 0
    /\ UNCHANGED OLLAMA_CIRCUIT_OPEN_UNTIL
    /\ failedSinceSuccess' = 0
    /\ UNCHANGED trippedAt

\* lines 231-232, with the history of the outcome
RecordSuccess ==
    /\ OLLAMA_FAILURE_COUNT' = 0
    /\ OLLAMA_CIRCUIT_OPEN_UNTIL' = 0
    /\ failedSinceSuccess' = 0
    /\ UNCHANGED trippedAt

-----------------------------------------------------------------------------
(* Values exchanged with the backends and returned to the caller           *)

None == <<>>
Some(x) == <<x>>

\* Python truthiness of the content of a (content, err) pair
Truthy(content) == content # None /\ content[1] # ""

\* JSONResponse(status_code=..., content={'error': ..., 'details': ...})
JSONResponse(status_code, error, details) ==
    [status_code |-> status_code, error |-> error, details |-> details]

\* lines 172-175
CircuitOpenResponse(retry_in) ==
    JSONResponse(503, "Local inference unavailable",
                 "circuit_open_retry_in_" \o ToString(retry_in) \o "s")

\* lines 203-206; str(exc) of the transport error
ExceptionResponse ==
    JSONResponse(503, "Local inference unavailable", "ConnectError")

\* lines 225-228
ChatFailedResponse(status_code) ==
    JSONResponse(503, "Local inference unavailable",
                 "Ollama chat failed: " \o ToString(status_code))

\* what the local backend can answer to POST /api/chat (lines 185-193)
ErrorStatusCodes == {404, 500}
LocalContents == {"", "pong"}
ChatOutcomes ==
    { [kind |-> "exception", status_code |-> 0, content |-> ""] }
    \cup { [kind |-> "status", status_code |-> c, content |-> ""] : c \in ErrorStatusCodes }
    \cup { [kind |-> "ok", status_code |-> 200, content |-> c] : c \in LocalContents }

\* what it can answer to GET /api/tags (line 211): the names of the listing,
\* "" for an entry without a name
QWEN  == "qwen2.5:14b-instruct-q4_K_M"
LLAMA == "llama3:latest"
ModelListings == { <<>>, <<"">>, <<QWEN>>, <<LLAMA>>, <<QWEN, LLAMA>>, <<LLAMA, QWEN>> }
TagsOutcomes ==
    { [kind |-> "exception", status_code |-> 0, models |-> <<>>] }
    \cup { [kind |-> "status", status_code |-> c, models |-> <<>>] : c \in ErrorStatusCodes }
    \cup { [kind |-> "ok", status_code |-> 200, models |-> l] : l \in ModelListings }

\* what the cloud backend can answer (lines 307-338)
CloudContents == {"", "kimi says"}
CloudOutcomes ==
    { [kind |-> "exception", status_code |-> 0, content |-> ""] }
    \cup { [kind |-> "status", status_code |-> c, content |-> ""] : c \in ErrorStatusCodes }
    \cup { [kind |-> "ok", status_code |-> 200, content |-> c] : c \in CloudContents }

\* the (content, provider, error) triple of _hybrid_chat
HybridResult(content, provider, err) ==
    [content |-> content, provider |-> provider, err |-> err]

NoResult == HybridResult("", "", None)
NoFrame == [local_model |-> "", requested_model |-> "", response_status |-> 0,
            model_name |-> ""]

\* lines 365-370: the (content, err) pair of _chat_with_ollama turned into the triple
LocalResult(content, err) ==
    IF Truthy(content) THEN HybridResult(content[1], "local", None)
    ELSE HybridResult("", "none", err)

\* the requests of callers: short conversations (the routing decision over
\* long ones is SpecRoute's)
Msg(role, content) == [role |-> role, content |-> content]
ChatMessageLists ==
    { << Msg("user", "hello") >>,
      << Msg("user", "Deep Research on llamas") >> }
RequestModels == {"auto"}

\* what _chat_with_moonshot hands back when it fails (lines 288-291, 328-331,
\* 335-338); these bodies have no 'details' key
MoonshotNotConfigured == JSONResponse(503, "MOONSHOT_API_KEY not configured", "")
MoonshotApiError(status_code) ==
    JSONResponse(status_code, "Moonshot API error: " \o ToString(status_code), "")
MoonshotUnavailable == JSONResponse(503, "Moonshot API unavailable: ConnectError", "")

\* the locals of an endpoint handler and of _hybrid_chat that outlive an await:
\* which endpoint it is, payload.stream, the messages, and err of line 357
Caller(name, stream, messages, err) ==
    [name |-> name, stream |-> stream, messages |-> messages, err |-> err]
NoCaller == Caller("", FALSE, <<>>, None)

\* line 357 assigns err. _hybrid_chat never reads it again before line 365
\* overwrites it, so no step depends on it; it is kept, as what the cloud
\* path handed back, for the calls an endpoint handler made
WithErr(h, err) == IF h.name = "" THEN h ELSE [h EXCEPT !.err = err]

\* an HTTP response: status, media type, and the keys of its body that the
\* endpoints set ("" and FALSE for a key the body does not have)
HttpResponse(status_code, media_type, content, provider, degraded, error, details) ==
    [status_code |-> status_code, media_type |-> media_type, content |-> content,
     provider |-> provider, degraded |-> degraded, error |-> error, details |-> details]
NoResponse == HttpResponse(0, "", "", "", FALSE, "", "")

\* a dict returned by a handler: 200, application/json
JsonBody(content, provider, degraded) ==
    HttpResponse(200, "application/json", content, provider, degraded, "", "")
\* a JSONResponse returned by a handler as it is
JsonError(jr) ==
    HttpResponse(jr.status_code, "application/json", "", "", FALSE, jr.error, jr.details)
\* StreamingResponse(..., media_type='text/event-stream') over the words of text
EventStream(text) ==
    HttpResponse(200, "text/event-stream", text, "", FALSE, "", "")

LOCAL_AI_FALLBACK ==
    "AI models unavailable. Please check Ollama or configure MOONSHOT_API_KEY."
CHAT_FALLBACK ==
    "Local model is currently unavailable. I can still help with planning and execution steps while Ollama is offline."

\* local_ai_chat, lines 749-764
LocalAiChatResponse(res) ==
    IF res.err # None THEN JsonBody(LOCAL_AI_FALLBACK, "none", FALSE)
    ELSE JsonBody(res.content, res.provider, FALSE)

\* hybrid_chat_endpoint, lines 793-801
HybridChatEndpointResponse(res) ==
    IF res.err # None THEN JsonError(res.err[1])
    ELSE JsonBody(res.content, res.provider, FALSE)

\* chat, lines 847-867, of the (content, err) pair that res carries
ChatResponse(stream, res) ==
    IF res.err # None
    THEN IF stream THEN EventStream(CHAT_FALLBACK) ELSE JsonBody(CHAT_FALLBACK, "", TRUE)
    ELSE IF stream THEN EventStream(res.content) ELSE JsonBody(res.content, "", FALSE)

\* what the handler h returns once its call has returned res
EndpointResponse(h, res) ==
    CASE h.name = "local_ai_chat" -> LocalAiChatResponse(res)
      [] h.name = "hybrid_chat_endpoint" -> HybridChatEndpointResponse(res)
      [] h.name = "chat" -> ChatResponse(h.stream, res)
      [] OTHER -> NoResponse

\* no ingest, proxy or fetch-page request is being handled and the two
\* functions of the knowledge pipeline have not been applied
NoJob == [handler |-> "", pc |-> "idle"]
\* the vector store: the size of the vectors of its collection (None: there
\* is no collection) and its points by identifier
Store(size, points) == [size |-> size, points |-> points]
NoStore == Store(None, <<>>)
\* a request to one of the three handlers, and none
Received(handler, payload) == [handler |-> handler, payload |-> payload]
NoRequest == Received("", <<>>)
\* nobody is connected to the Socket.IO server
Sids == {"s1", "s2"}
Handlers == Sids \cup {"send_notification"}
\* no chat response is being streamed: the generator has not been started,
\* has no words left to yield and has written nothing
NotStreaming == [pc |-> "idle", words |-> <<>>, body |-> ""]
NoStream == event_stream = NotStreaming
NoPresence ==
    /\ sockets = {}
    /\ connected_clients = <<>>
    /\ presence_data = <<>>
    /\ sio_pc = [h \in Handlers |-> "idle"]
    /\ emitted = <<>>
    /\ leaves = {}
    /\ written_by = {}

NoKnowledge ==
    /\ raw_url = [url |-> "", parts |-> <<>>]
    /\ is_public = None
    /\ document_text = ""
    /\ chunks = None
    /\ OPENAI_API_KEY = ""
    /\ qdrant = NoStore
    /\ uuid_count = 0
    /\ served = 0
    /\ request = NoRequest
    /\ job = NoJob
    /\ outbound = <<>>
    /\ NoPresence
    /\ NoStream

-----------------------------------------------------------------------------
(* Concurrent chat requests: one action per atomic block between awaits    *)

Init ==
    /\ OLLAMA_FAILURE_COUNT = 0
    /\ OLLAMA_CIRCUIT_OPEN_UNTIL = 0
    /\ MOONSHOT_API_KEY \in {"", "sk-moonshot"}
    /\ now = 0
    /\ pc = [r \in Requests |-> "idle"]
    /\ frame = [r \in Requests |-> NoFrame]
    /\ result = NoResult
    /\ failedSinceSuccess = 0
    /\ trippedAt = -1
    /\ route_args = <<>>
    /\ use_cloud = <<>>
    /\ caller = [r \in Requests |-> NoCaller]
    /\ response = NoResponse
    /\ NoKnowledge

\* the coroutine of request r returns res
Return(r, res) ==
    /\ pc' = [pc EXCEPT ![r] = "idle"]
    /\ frame' = [frame EXCEPT ![r] = NoFrame]
    /\ result' = res

\* the step of request r ends: its handler h either returns the response now
\* or stays suspended with its locals
Respond(r, h) ==
    /\ caller' = [caller EXCEPT ![r] = IF pc'[r] = "idle" THEN NoCaller ELSE h]
    /\ response' = IF pc'[r] = "idle" THEN EndpointResponse(h, result') ELSE NoResponse

\* mutant: a short-circuited call is counted as one more failure
StartLocalCountingRejection(r, model) ==
    IF ~Allow(now)
    THEN /\ Return(r, LocalResult(None, Some(CircuitOpenResponse(RetryIn(now)))))
         /\ OLLAMA_FAILURE_COUNT' = OLLAMA_FAILURE_COUNT + 1
         /\ UNCHANGED <<OLLAMA_CIRCUIT_OPEN_UNTIL, historyVars>>
    ELSE LET requested_model == IF model = "" THEN LLAMA ELSE model
         IN  /\ pc' = [pc EXCEPT ![r] = "chat"]
             /\ frame' = [frame EXCEPT ![r] =
                              [local_model |-> "", requested_model |-> requested_model,
                               response_status |-> 0, model_name |-> requested_model]]
             /\ result' = NoResult
             /\ UNCHANGED <<breakerVars, historyVars>>

\* _chat_with_ollama, lines 168-196: the breaker check, then the first
\* POST /api/chat goes out and the coroutine suspends on it
StartLocal(r, model) ==
    /\ IF ~Allow(now)
       THEN Return(r, LocalResult(None, Some(CircuitOpenResponse(RetryIn(now)))))
       ELSE LET requested_model == IF model = "" THEN LLAMA ELSE model
            IN  /\ pc' = [pc EXCEPT ![r] = "chat"]
                /\ frame' = [frame EXCEPT ![r] =
                                 [local_model |-> "", requested_model |-> requested_model,
                                  response_status |-> 0, model_name |-> requested_model]]
                /\ result' = NoResult
    /\ UNCHANGED <<breakerVars, historyVars>>

\* lines 221-228 (and 198-206): the call ends in failure
FailLocal(r, err) ==
    /\ OLLAMA_FAILURE_COUNT < MaxFailures
    /\ RecordFailure
    /\ Return(r, LocalResult(None, Some(err)))

\* lines 230-235: the call ends in success
SucceedLocal(r, content) ==
    /\ RecordSuccess
    /\ Return(r, LocalResult(Some(content), None))

\* _hybrid_chat, lines 353-365, up to its first await, called by handler h
HybridChatCall(r, messages, model, force_local, force_cloud, h) ==
    LET local_model == IF model # "auto" THEN model ELSE QWEN
    IN  IF HybridUseCloud(messages, force_local, force_cloud)
        THEN IF MOONSHOT_API_KEY # ""
             THEN \* line 307: the cloud request goes out
                  /\ pc' = [pc EXCEPT ![r] = "cloud"]
                  /\ frame' = [frame EXCEPT ![r] =
                                   [NoFrame EXCEPT !.local_model = local_model]]
                  /\ result' = NoResult /\ UNCHANGED <<breakerVars, historyVars>>
                  /\ Respond(r, h)
             ELSE \* lines 286-291: no key, err is set and local is called at once
                  /\ StartLocal(r, local_model)
                  /\ Respond(r, WithErr(h, Some(MoonshotNotConfigured)))
        ELSE \* routed to local
             /\ StartLocal(r, local_model)
             /\ Respond(r, h)

\* _hybrid_chat called on its own
HybridChat(r) ==
    /\ pc[r] = "idle"
    /\ \E messages \in ChatMessageLists, model \in RequestModels,
          force_local \in BOOLEAN, force_cloud \in BOOLEAN :
          HybridChatCall(r, messages, model, force_local, force_cloud, NoCaller)
    /\ UNCHANGED <<MOONSHOT_API_KEY, now, routeVars, knowledgeVars, presenceVars, event_stream>>

\* lines 325, 328-331, 335-338: the err of the (content, err) pair
MoonshotErr(o) ==
    CASE o.kind = "ok" -> None
      [] o.kind = "status" -> Some(MoonshotApiError(o.status_code))
      [] o.kind = "exception" -> Some(MoonshotUnavailable)

\* _chat_with_moonshot returns o, lines 321-338, then _hybrid_chat lines 358-365
CloudReturnOn(r, o) ==
    /\ pc[r] = "cloud"
    /\ LET content == IF o.kind = "ok" THEN Some(o.content) ELSE None
       IN  IF Truthy(content)
           THEN /\ Return(r, HybridResult(content[1], "kimi-k2.5", None))
                /\ UNCHANGED <<breakerVars, historyVars>>
                /\ Respond(r, caller[r])
           ELSE /\ StartLocal(r, frame[r].local_model)
                /\ Respond(r, WithErr(caller[r], MoonshotErr(o)))
    /\ UNCHANGED <<MOONSHOT_API_KEY, now, routeVars, knowledgeVars, presenceVars, event_stream>>

CloudReturn(r) == \E o \in CloudOutcomes : CloudReturnOn(r, o)

\* mutant: a non-success first answer is recorded before the retry is tried
ChatReturnOnCountingFirstAttempt(r, o) ==
    /\ pc[r] = "chat"
    /\ CASE o.kind = "exception" -> FailLocal(r, ExceptionResponse)
         [] o.kind = "status" ->
               /\ pc' = [pc EXCEPT ![r] = "tags"]
               /\ frame' = [frame EXCEPT ![r].response_status = o.status_code,
                                         ![r].model_name = ""]
               /\ result' = NoResult
               /\ OLLAMA_FAILURE_COUNT < MaxFailures
               /\ RecordFailure
         [] o.kind = "ok" -> SucceedLocal(r, o.content)
    /\ Respond(r, caller[r])
    /\ UNCHANGED <<MOONSHOT_API_KEY, now, routeVars, knowledgeVars, presenceVars, event_stream>>

\* the first do_chat returns or raises o, lines 195-211
ChatReturnOn(r, o) ==
    /\ pc[r] = "chat"
    /\ CASE o.kind = "exception" -> FailLocal(r, ExceptionResponse)
         [] o.kind = "status" ->
               \* line 211: GET /api/tags goes out
               /\ pc' = [pc EXCEPT ![r] = "tags"]
               /\ frame' = [frame EXCEPT ![r].response_status = o.status_code,
                                         ![r].model_name = ""]
               /\ result' = NoResult /\ UNCHANGED <<breakerVars, historyVars>>
         [] o.kind = "ok" -> SucceedLocal(r, o.content)
    /\ Respond(r, caller[r])
    /\ UNCHANGED <<MOONSHOT_API_KEY, now, routeVars, knowledgeVars, presenceVars, event_stream>>

ChatReturn(r) == \E o \in ChatOutcomes : ChatReturnOn(r, o)

\* models[0].name of the listing, line 214 ("" for None)
FallbackModel(models) == IF Len(models) > 0 THEN models[1] ELSE ""

\* mutant: when the listing fails the requested model is tried once more
TagsReturnOnRetryingAnyway(r, o) ==
    /\ pc[r] = "tags"
    /\ LET fallback_model == IF o.kind = "ok" THEN FallbackModel(o.models)
                             ELSE frame[r].requested_model
       IN  IF fallback_model # "" /\ (o.kind # "ok" \/ fallback_model # frame[r].requested_model)
           THEN /\ pc' = [pc EXCEPT ![r] = "retry"]
                /\ frame' = [frame EXCEPT ![r].model_name = fallback_model]
                /\ result' = NoResult /\ UNCHANGED <<breakerVars, historyVars>>
           ELSE FailLocal(r, ChatFailedResponse(frame[r].response_status))
    /\ Respond(r, caller[r])
    /\ UNCHANGED <<MOONSHOT_API_KEY, now, routeVars, knowledgeVars, presenceVars, event_stream>>

\* the model listing returns or raises o, lines 211-228
TagsReturnOn(r, o) ==
    /\ pc[r] = "tags"
    /\ LET fallback_model == IF o.kind = "ok" THEN FallbackModel(o.models) ELSE ""
       IN  IF fallback_model # "" /\ fallback_model # frame[r].requested_model
           THEN \* line 216: the retry goes out
                /\ pc' = [pc EXCEPT ![r] = "retry"]
                /\ frame' = [frame EXCEPT ![r].model_name = fallback_model]
                /\ result' = NoResult /\ UNCHANGED <<breakerVars, historyVars>>
           ELSE FailLocal(r, ChatFailedResponse(frame[r].response_status))
    /\ Respond(r, caller[r])
    /\ UNCHANGED <<MOONSHOT_API_KEY, now, routeVars, knowledgeVars, presenceVars, event_stream>>

TagsReturn(r) == \E o \in TagsOutcomes : TagsReturnOn(r, o)

\* the retry returns or raises o, lines 216-235
RetryReturnOn(r, o) ==
    /\ pc[r] = "retry"
    /\ CASE o.kind = "exception" ->
               \* lines 217-219: swallowed, response is still the first one
               FailLocal(r, ChatFailedResponse(frame[r].response_status))
         [] o.kind = "status" -> FailLocal(r, ChatFailedResponse(o.status_code))
         [] o.kind = "ok" -> SucceedLocal(r, o.content)
    /\ Respond(r, caller[r])
    /\ UNCHANGED <<MOONSHOT_API_KEY, now, routeVars, knowledgeVars, presenceVars, event_stream>>

RetryReturn(r) == \E o \in ChatOutcomes : RetryReturnOn(r, o)

-----------------------------------------------------------------------------
(* The chat endpoints                                                      *)

\* an item of payload['messages']: a dict whose 'role' and 'content' may be
\* missing (an item that is no dict is treated as the dict without keys)
Item(role, content) == [role |-> role, content |-> content]

\* mutant: the loop prepends, the newest message comes first
RECURSIVE NormalizeListNewestFirst(_)
NormalizeListNewestFirst(messages) ==
    IF messages = <<>> THEN <<>>
    ELSE LET m == Head(messages)
             role == IF m.role = None THEN "user" ELSE m.role[1]
             content == IF m.content = None THEN "" ELSE m.content[1]
         IN  NormalizeListNewestFirst(Tail(messages))
             \o (IF content # "" THEN << Msg(role, content) >> ELSE <<>>)

\* lines 722-726: the loop over payload['messages']
RECURSIVE NormalizeList(_)
NormalizeList(messages) ==
    IF messages = <<>> THEN <<>>
    ELSE LET m == Head(messages)
             role == IF m.role = None THEN "user" ELSE m.role[1]
             content == IF m.content = None THEN "" ELSE m.content[1]
         IN  (IF content # "" THEN << Msg(role, content) >> ELSE <<>>)
             \o NormalizeList(Tail(messages))

\* lines 717-728: normalized_messages of a payload
NormalizedMessages(payload) ==
    IF payload.messages # None /\ Len(payload.messages[1]) > 0
    THEN NormalizeList(payload.messages[1])
    ELSE IF payload.message # "" THEN << Msg("user", payload.message) >>
    ELSE <<>>

\* payloads of POST /api/local-ai/chat: 'messages' missing, empty, or a list;
\* 'message' missing ("") or a text
LocalAiMessageInputs ==
    { None,
      Some(<<>>),
      Some(<< Item(Some("user"), Some("a")), Item(Some("assistant"), Some("")),
              Item(Some("user"), Some("b")) >>),
      Some(<< Item(None, Some("")), Item(None, None) >>),
      Some(<< Item(None, Some("deep research")) >>) }
LocalAiPayloads ==
    [messages : LocalAiMessageInputs, message : {"", "hi"}, model : {""},
     forceLocal : BOOLEAN, forceCloud : BOOLEAN]

\* payloads of POST /api/hybrid/chat
HybridPayloads ==
    [messages : {<<>>} \cup ChatMessageLists, model : RequestModels,
     forceLocal : BOOLEAN, forceCloud : BOOLEAN]

\* payloads of POST /api/chat (ChatReq, lines 107-111)
ChatPayloads ==
    [messages : {<<>>, << Msg("user", "hello") >>}, model : {LLAMA}, stream : BOOLEAN]

\* a handler returns before it called anything
RespondAtOnce(resp) ==
    /\ response' = resp
    /\ result' = NoResult
    /\ UNCHANGED <<breakerVars, historyVars, requestVars, caller>>

\* local_ai_chat, lines 715-747, up to its first await
LocalAiChatOn(r, payload) ==
    /\ pc[r] = "idle"
    /\ LET normalized_messages == NormalizedMessages(payload)
           model == IF payload.model # "" THEN payload.model ELSE "auto"
       IN  IF normalized_messages = <<>>
           THEN RespondAtOnce(JsonError(
                    JSONResponse(400, "message or messages[] is required", "")))
           ELSE HybridChatCall(r, normalized_messages, model,
                               payload.forceLocal, payload.forceCloud,
                               Caller("local_ai_chat", FALSE, normalized_messages, None))
    /\ UNCHANGED <<MOONSHOT_API_KEY, now, routeVars, knowledgeVars, presenceVars, event_stream>>

LocalAiChat(r) == \E payload \in LocalAiPayloads : LocalAiChatOn(r, payload)

\* hybrid_chat_endpoint, lines 780-791, up to its first await
HybridChatEndpointOn(r, payload) ==
    /\ pc[r] = "idle"
    /\ IF payload.messages = <<>>
       THEN RespondAtOnce(JsonError(JSONResponse(400, "messages is required", "")))
       ELSE HybridChatCall(r, payload.messages, payload.model,
                           payload.forceLocal, payload.forceCloud,
                           Caller("hybrid_chat_endpoint", FALSE, payload.messages, None))
    /\ UNCHANGED <<MOONSHOT_API_KEY, now, routeVars, knowledgeVars, presenceVars, event_stream>>

HybridChatEndpoint(r) == \E payload \in HybridPayloads : HybridChatEndpointOn(r, payload)

\* chat, lines 842-846, up to its first await
ChatOn(r, payload) ==
    /\ pc[r] = "idle"
    /\ IF payload.messages = <<>>
       THEN RespondAtOnce(JsonError(JSONResponse(400, "messages is required", "")))
       ELSE /\ StartLocal(r, payload.model)
            /\ Respond(r, Caller("chat", payload.stream, payload.messages, None))
    /\ UNCHANGED <<MOONSHOT_API_KEY, now, routeVars, knowledgeVars, presenceVars, event_stream>>

Chat(r) == \E payload \in ChatPayloads : ChatOn(r, payload)

\* time passes
Tick ==
    /\ now + TickStep <= MaxTime
    /\ now' = now + TickStep
    /\ result' = NoResult
    /\ response' = NoResponse
    /\ UNCHANGED <<breakerVars, MOONSHOT_API_KEY, requestVars, historyVars, routeVars,
                   caller, knowledgeVars, presenceVars, event_stream>>

Next ==
    \/ \E r \in Requests : HybridChat(r)
    \/ \E r \in Requests : CloudReturn(r)
    \/ \E r \in Requests : ChatReturn(r)
    \/ \E r \in Requests : TagsReturn(r)
    \/ \E r \in Requests : RetryReturn(r)
    \/ Tick

Spec == Init /\ [][Next]_vars

\* the endpoints, serving one request at a time
OneAtATime == {1}

NextServe ==
    \/ \E r \in OneAtATime : LocalAiChat(r)
    \/ \E r \in OneAtATime : HybridChatEndpoint(r)
    \/ \E r \in OneAtATime : Chat(r)
    \/ \E r \in OneAtATime : CloudReturn(r)
    \/ \E r \in OneAtATime : ChatReturn(r)
    \/ \E r \in OneAtATime : TagsReturn(r)
    \/ \E r \in OneAtATime : RetryReturn(r)
    \/ Tick

SpecServe == Init /\ [][NextServe]_vars

-----------------------------------------------------------------------------
(* Steps of a request, as the claims speak of them                         *)

InFlightLocal == {"chat", "tags", "retry"}

\* request r enters _chat_with_ollama in this step (directly or after the
\* cloud path failed)
LocalCallMade(r) ==
    \/ HybridChat(r) /\ pc'[r] # "cloud"
    \/ CloudReturn(r) /\ result'.provider # "kimi-k2.5"

\* a request goes out to the local backend in this step
SendsToLocal(r) == pc'[r] \in InFlightLocal /\ pc'[r] # pc[r]

\* the local call of request r completes in this step, with success / failure
LocalSucceeds(r) ==
    (ChatReturn(r) \/ RetryReturn(r)) /\ pc'[r] = "idle" /\ result'.err = None
LocalFails(r) ==
    (ChatReturn(r) \/ TagsReturn(r) \/ RetryReturn(r)) /\ pc'[r] = "idle"
    /\ result'.err # None

\* res is the short-circuit answer: 503 with details circuit_open_retry_in_<n>s
IsCircuitOpen(res) ==
    /\ res.provider = "none"
    /\ res.err # None
    /\ res.err[1].status_code = 503
    /\ \E n \in 0..(CIRCUIT_COOLDOWN_SECONDS + MaxTime) :
          res.err[1].details = "circuit_open_retry_in_" \o ToString(n) \o "s"

\* res reports a failed backend call
IsBackendFailure(res) == res.err # None /\ ~IsCircuitOpen(res)

-----------------------------------------------------------------------------
(* C1..C6: the circuit breaker                                             *)

\* C1 as stated: once a third failure in a row has completed, every local
\* call made less than the cooldown later is rejected.
C1_RejectedUntilCooldown ==
    [][\A r \in Requests :
          (LocalCallMade(r) /\ trippedAt >= 0
             /\ now < trippedAt + CIRCUIT_COOLDOWN_SECONDS)
          => (pc'[r] = "idle" /\ IsCircuitOpen(result'))]_vars

\* C1 amended: after THRESHOLD failed local calls in a row, every local call
\* made before the cooldown has elapsed and before any call has succeeded
\* since is rejected without being sent.
C1_RejectedUntilCooldownOrSuccess ==
    [][\A r \in Requests :
          (LocalCallMade(r) /\ failedSinceSuccess >= CIRCUIT_FAILURE_THRESHOLD
             /\ now < trippedAt + CIRCUIT_COOLDOWN_SECONDS)
          => (pc'[r] = "idle" /\ IsCircuitOpen(result'))]_vars

\* a call was just rejected, inside the cooldown of three failures in a row
C1_Witness ==
    /\ failedSinceSuccess >= CIRCUIT_FAILURE_THRESHOLD
    /\ now > trippedAt
    /\ now < trippedAt + CIRCUIT_COOLDOWN_SECONDS
    /\ IsCircuitOpen(result)

\* C2: a local call that completes successfully leaves failureCount 0 and
\* openUntil cleared, whatever they were, so a call made next is allowed.
C2_SuccessResets ==
    [][\A r \in Requests :
          LocalSucceeds(r)
          => /\ OLLAMA_FAILURE_COUNT' = 0
             /\ OLLAMA_CIRCUIT_OPEN_UNTIL' = 0
             /\ ~(now' < OLLAMA_CIRCUIT_OPEN_UNTIL')]_vars

\* a call just succeeded inside the cooldown of an opened circuit
C2_Witness ==
    /\ result.provider = "local"
    /\ trippedAt >= 0
    /\ now < trippedAt + CIRCUIT_COOLDOWN_SECONDS
    /\ OLLAMA_FAILURE_COUNT = 0
    /\ OLLAMA_CIRCUIT_OPEN_UNTIL = 0

\* C3: a local call made while now < openUntil returns the 503
\* circuit_open_retry_in_<n>s answer, sends nothing to the backend and
\* leaves failureCount and openUntil as they were.
C3_OpenCallIsPureRejection ==
    [][\A r \in Requests :
          (LocalCallMade(r) /\ now < OLLAMA_CIRCUIT_OPEN_UNTIL)
          => /\ IsCircuitOpen(result')
             /\ result'.err[1].details =
                   "circuit_open_retry_in_"
                   \o ToString(OLLAMA_CIRCUIT_OPEN_UNTIL - now) \o "s"
             /\ pc'[r] = "idle"
             /\ ~SendsToLocal(r)
             /\ UNCHANGED breakerVars]_vars

\* a call was just rejected while the circuit is open
C3_Witness ==
    /\ now < OLLAMA_CIRCUIT_OPEN_UNTIL
    /\ IsCircuitOpen(result)
    /\ OLLAMA_FAILURE_COUNT >= CIRCUIT_FAILURE_THRESHOLD

\* C4: once now >= openUntil the next local call is sent to the backend,
\* whatever failureCount is, and the breaker after a call's completion is a
\* function of the breaker before it and of the outcome alone.
C4_NoHalfOpen ==
    [][\A r \in Requests :
          /\ (LocalCallMade(r) /\ now >= OLLAMA_CIRCUIT_OPEN_UNTIL)
             => (pc'[r] = "chat" /\ UNCHANGED breakerVars)
          /\ LocalSucceeds(r)
             => (OLLAMA_FAILURE_COUNT' = 0 /\ OLLAMA_CIRCUIT_OPEN_UNTIL' = 0)
          /\ LocalFails(r)
             => /\ OLLAMA_FAILURE_COUNT' = OLLAMA_FAILURE_COUNT + 1
                /\ OLLAMA_CIRCUIT_OPEN_UNTIL' =
                      IF OLLAMA_FAILURE_COUNT + 1 >= CIRCUIT_FAILURE_THRESHOLD
                      THEN now + CIRCUIT_COOLDOWN_SECONDS
                      ELSE OLLAMA_CIRCUIT_OPEN_UNTIL]_vars

\* two calls are in flight after the cooldown of a tripped breaker expired
C4_Witness ==
    /\ OLLAMA_FAILURE_COUNT >= CIRCUIT_FAILURE_THRESHOLD
    /\ OLLAMA_CIRCUIT_OPEN_UNTIL > 0
    /\ now >= OLLAMA_CIRCUIT_OPEN_UNTIL
    /\ \E r1, r2 \in Requests : r1 # r2 /\ pc[r1] = "chat" /\ pc[r2] = "chat"

\* C5: no failure is lost: failureCount equals the number of local calls
\* that failed since the last success (since the start when none succeeded),
\* in every interleaving.
C5_NoLostFailure == OLLAMA_FAILURE_COUNT = failedSinceSuccess

\* a failure was just recorded while another call is in flight, and two or
\* more have been counted
C5_Witness ==
    /\ IsBackendFailure(result)
    /\ \E r \in Requests : pc[r] \in InFlightLocal
    /\ failedSinceSuccess >= 2

\* C6: no request goes out to the local backend while now < openUntil.
C6_NoSendWhileOpen ==
    [][\A r \in Requests :
          SendsToLocal(r) => ~(now < OLLAMA_CIRCUIT_OPEN_UNTIL)]_vars

-----------------------------------------------------------------------------
(* C11..C17: the fallback chain, the endpoints and the retry               *)

\* C11: when the cloud backend answers the cloud request with a success
\* response, _hybrid_chat returns that content with provider kimi-k2.5 and
\* no error, makes no local call and leaves the breaker as it was.
C11_CloudSuccessReturned ==
    [][\A r \in Requests : \A o \in CloudOutcomes :
          (CloudReturnOn(r, o) /\ o.kind = "ok")
          => /\ result' = HybridResult(o.content, "kimi-k2.5", None)
             /\ pc'[r] = "idle"
             /\ UNCHANGED breakerVars]_vars

\* C12: when the cloud path failed (no credential under forceCloud, a
\* non-success status, an exception) and the local call then succeeds, the
\* result is the local content with provider local and no error.
C12_CloudFailureMasked ==
    [][\A r \in Requests : \A o \in ChatOutcomes :
          ( /\ ChatReturnOn(r, o) \/ RetryReturnOn(r, o)
            /\ o.kind = "ok"
            /\ caller[r].err # None )
          => result' = HybridResult(o.content, "local", None)]_vars

\* C13: a response given after every backend failed or with the circuit open
\* is a 200 with provider none or the degraded marker and one of the fixed
\* messages, and has no error or details of a backend.
C13_SafeFallbackResponse ==
    (result.err # None /\ response # NoResponse)
    => /\ response.status_code = 200
       /\ response.provider = "none" \/ response.degraded
       /\ response.content \in {LOCAL_AI_FALLBACK, CHAT_FALLBACK}
       /\ response.error = "" /\ response.details = ""

\* C14: when the local backend answers a chat request of a call with a
\* success response, the call returns that content, provider local, no error.
C14_LocalContentPassedThrough ==
    [][\A r \in Requests : \A o \in ChatOutcomes :
          ((ChatReturnOn(r, o) \/ RetryReturnOn(r, o)) /\ o.kind = "ok")
          => /\ result'.content = o.content
             /\ result'.provider = "local"
             /\ result'.err = None]_vars

\* the messages a payload of /api/local-ai/chat offers: the items of a
\* non-empty list, else the single free-text message
Offered(payload) ==
    IF payload.messages # None /\ payload.messages[1] # <<>>
    THEN [i \in DOMAIN payload.messages[1] |->
             LET m == payload.messages[1][i]
             IN  Msg(IF m.role = None THEN "user" ELSE m.role[1],
                     IF m.content = None THEN "" ELSE m.content[1])]
    ELSE << Msg("user", payload.message) >>
HasContent(m) == m.content # ""

\* C15: /api/local-ai/chat hands on the offered messages that have content,
\* in their order; when none has, it answers 400, contacts no backend and
\* leaves the breaker as it was.
C15_NormalizedInOrder ==
    [][\A r \in Requests : \A payload \in LocalAiPayloads :
          LocalAiChatOn(r, payload)
          => LET kept == SelectSeq(Offered(payload), HasContent)
             IN  IF kept = <<>>
                 THEN /\ response'.status_code = 400
                      /\ UNCHANGED <<pc, breakerVars>>
                 ELSE /\ response'.status_code # 400
                      /\ pc'[r] # "idle" => caller'[r].messages = kept]_vars

\* a call is in flight with two of three listed messages, the empty one dropped
C15_Witness ==
    \E r \in Requests :
        /\ caller[r].name = "local_ai_chat"
        /\ pc[r] # "idle"
        /\ caller[r].messages = << Msg("user", "a"), Msg("user", "b") >>

Differs(requested_model, name) == name # "" /\ name # requested_model

\* C16: after a non-success first answer, when the model listing names a
\* model other than the requested one, the retry goes out with the first
\* such model; otherwise the call ends without a retry.
C16_RetryWithFirstDifferingModel ==
    [][\A r \in Requests : \A o \in TagsOutcomes :
          (TagsReturnOn(r, o) /\ o.kind = "ok")
          => LET differing ==
                     SelectSeq(o.models,
                               LAMBDA name : Differs(frame[r].requested_model, name))
             IN  IF differing # <<>>
                 THEN pc'[r] = "retry" /\ frame'[r].model_name = differing[1]
                 ELSE pc'[r] = "idle"]_vars

\* C17: a local call touches the breaker only when it ends: a step that
\* leaves the call in flight changes nothing, a call that ends in failure
\* adds one, and a retry that succeeds after a non-success first answer
\* leaves failureCount 0 and openUntil cleared.
C17_FinalOutcomeRecorded ==
    [][\A r \in Requests :
          (ChatReturn(r) \/ TagsReturn(r) \/ RetryReturn(r))
          => /\ pc'[r] # "idle" => UNCHANGED breakerVars
             /\ (pc'[r] = "idle" /\ result'.err # None)
                => OLLAMA_FAILURE_COUNT' = OLLAMA_FAILURE_COUNT + 1
             /\ (pc[r] = "retry" /\ result'.err = None)
                => (OLLAMA_FAILURE_COUNT' = 0 /\ OLLAMA_CIRCUIT_OPEN_UNTIL' = 0)]_vars

\* a retry is in flight after two counted failures: the first answer of this
\* call, a non-success, has not been counted, the circuit is closed
C17_Witness ==
    \E r \in Requests :
        /\ pc[r] = "retry"
        /\ frame[r].response_status \in ErrorStatusCodes
        /\ OLLAMA_FAILURE_COUNT = CIRCUIT_FAILURE_THRESHOLD - 1
        /\ OLLAMA_CIRCUIT_OPEN_UNTIL = 0

-----------------------------------------------------------------------------
(* The routing decision on its own: _hybrid_chat line 354 evaluated for    *)
(* the same arguments before and after other calls moved the breaker       *)

X(n) == Repeat("x", n)

RouteMessageLists ==
    { << Msg("user", "hello") >>,
      << Msg("user", "Deep Research") >>,
      << Msg("user", "TELEVISION") >>,
      << Msg("user", "multi agent") >>,
      << Msg("user", "agent"), Msg("assistant", "swarm") >>,
      << Msg("user", "comprehensiv"), Msg("user", "e") >>,
      << Msg("user", ""), Msg("user", "hi") >>,
      << Msg("system", "Look At This"), Msg("user", "x") >>,
      << Msg("user", "orchestrate"), Msg("assistant", "ok"), Msg("user", "a"),
         Msg("user", "b") >>,
      << Msg("user", "a"), Msg("user", "orchestrate"), Msg("assistant", "ok"),
         Msg("user", "b") >>,
      << Msg("user", X(LENGTH_THRESHOLD)) >>,
      << Msg("user", X(LENGTH_THRESHOLD + 1)) >>,
      << Msg("user", X(LENGTH_THRESHOLD - 5)), Msg("user", "hello") >>,
      << Msg("user", "vision"), Msg("assistant", X(LENGTH_THRESHOLD)),
         Msg("user", "a"), Msg("user", "b"), Msg("user", "c") >>,
      << Msg("user", "vision"), Msg("assistant", "short"),
         Msg("user", "a"), Msg("user", "b"), Msg("user", "c") >> }

RouteInputs ==
    [messages : RouteMessageLists, force_local : BOOLEAN, force_cloud : BOOLEAN]

InitRoute ==
    /\ OLLAMA_FAILURE_COUNT = 0
    /\ OLLAMA_CIRCUIT_OPEN_UNTIL = 0
    /\ MOONSHOT_API_KEY \in {"", "sk-moonshot"}
    /\ now = 0
    /\ pc = [r \in Requests |-> "idle"]
    /\ frame = [r \in Requests |-> NoFrame]
    /\ result = NoResult
    /\ failedSinceSuccess = 0
    /\ trippedAt = -1
    /\ route_args \in RouteInputs
    /\ use_cloud = <<>>
    /\ caller = [r \in Requests |-> NoCaller]
    /\ response = NoResponse
    /\ NoKnowledge

\* mutant: a decision for the cloud is counted against the local backend
RouteCountingCloud ==
    /\ Len(use_cloud) < MaxEvaluations
    /\ use_cloud' = Append(use_cloud,
           [use_cloud |-> HybridUseCloud(route_args.messages, route_args.force_local,
                                         route_args.force_cloud),
            circuit_open |-> ~Allow(now)])
    /\ OLLAMA_FAILURE_COUNT' =
          IF HybridUseCloud(route_args.messages, route_args.force_local,
                            route_args.force_cloud)
          THEN OLLAMA_FAILURE_COUNT + 1 ELSE OLLAMA_FAILURE_COUNT
    /\ UNCHANGED <<OLLAMA_CIRCUIT_OPEN_UNTIL, MOONSHOT_API_KEY, now, requestVars, result,
                   historyVars, route_args, serveVars, knowledgeVars, presenceVars, event_stream>>

\* line 354, with the breaker as it stands at the evaluation
Route ==
    /\ Len(use_cloud) < MaxEvaluations
    /\ use_cloud' = Append(use_cloud,
           [use_cloud |-> HybridUseCloud(route_args.messages, route_args.force_local,
                                         route_args.force_cloud),
            circuit_open |-> ~Allow(now)])
    /\ UNCHANGED <<breakerVars, MOONSHOT_API_KEY, now, requestVars, result,
                   historyVars, route_args, serveVars, knowledgeVars, presenceVars, event_stream>>

\* the local call of another request fails (lines 198-202, 221-224)
OtherCallFails ==
    /\ OLLAMA_FAILURE_COUNT < MaxFailures
    /\ RecordFailure
    /\ UNCHANGED <<MOONSHOT_API_KEY, now, requestVars, result, routeVars, serveVars,
                   knowledgeVars, presenceVars, event_stream>>

\* the local call of another request succeeds (lines 230-232)
OtherCallSucceeds ==
    /\ RecordSuccess
    /\ UNCHANGED <<MOONSHOT_API_KEY, now, requestVars, result, routeVars, serveVars,
                   knowledgeVars, presenceVars, event_stream>>

\* the decision for each input, evaluated with the breaker at rest
SpecRoute == InitRoute /\ [][Route]_vars

\* the decision re-evaluated while other calls open and close the circuit
NextReroute == Route \/ OtherCallFails \/ OtherCallSucceeds

SpecReroute == InitRoute /\ [][NextReroute]_vars

-----------------------------------------------------------------------------
(* C7..C10: the routing decision                                           *)

Evaluated == Len(use_cloud) > 0
Decisions == { use_cloud[i].use_cloud : i \in DOMAIN use_cloud }
Unforced == ~route_args.force_local /\ ~route_args.force_cloud
Configured == MOONSHOT_API_KEY # ""

\* kw occurs in text at some position, letters compared without regard to case
OccursIgnoringCase(text, kw) ==
    \E i \in 1..(Len(text) - Len(kw) + 1) :
        \A j \in 1..Len(kw) :
            LowerChar(SubSeq(text, i + j - 1, i + j - 1)) = LowerChar(SubSeq(kw, j, j))

AnyKeywordIn(text) ==
    \E k \in DOMAIN COMPLEX_TASK_KEYWORDS :
        OccursIgnoringCase(text, COMPLEX_TASK_KEYWORDS[k])

\* the contents of the messages numbered from..to, joined by single spaces
JoinedContent(messages, from, to) ==
    LET F[i \in (from - 1)..to] ==
            IF i < from THEN ""
            ELSE IF i = from THEN messages[i].content
            ELSE F[i - 1] \o " " \o messages[i].content
    IN  F[to]

FirstRecent(messages) == IF Len(messages) > 3 THEN Len(messages) - 2 ELSE 1
KeywordInLastThree(messages) ==
    AnyKeywordIn(JoinedContent(messages, FirstRecent(messages), Len(messages)))
KeywordInOlder(messages) ==
    /\ FirstRecent(messages) > 1
    /\ AnyKeywordIn(JoinedContent(messages, 1, FirstRecent(messages) - 1))

\* the number of characters of all contents together
SumOfLengths(messages) ==
    LET F[i \in 0..Len(messages)] ==
            IF i = 0 THEN 0 ELSE F[i - 1] + Len(messages[i].content)
    IN  F[Len(messages)]

\* C7: the decision follows the order forceLocal, forceCloud, no credential:
\* forceLocal gives local even with forceCloud; forceCloud alone gives cloud
\* even without a credential; no flag and no credential gives local whatever
\* the messages are.
C7_RoutingOrder ==
    \A d \in Decisions :
        /\ route_args.force_local => d = FALSE
        /\ (~route_args.force_local /\ route_args.force_cloud) => d = TRUE
        /\ (Unforced /\ ~Configured) => d = FALSE

\* both flags set, a credential configured: decided local
C7_Witness ==
    /\ Evaluated
    /\ route_args.force_local /\ route_args.force_cloud /\ Configured
    /\ use_cloud[1].use_cloud = FALSE

\* C8: with no flag and a credential, a keyword occurring (any case, as a
\* substring) in the joined content of the last three messages gives cloud;
\* a keyword only in older messages, the total length within the limit,
\* gives local.
C8_KeywordInRecentMessages ==
    (Evaluated /\ Unforced /\ Configured) =>
        \A d \in Decisions :
            /\ KeywordInLastThree(route_args.messages) => d = TRUE
            /\ ( /\ ~KeywordInLastThree(route_args.messages)
                 /\ KeywordInOlder(route_args.messages)
                 /\ SumOfLengths(route_args.messages) <= LENGTH_THRESHOLD )
               => d = FALSE

\* decided cloud for a keyword that is in the last three messages only in
\* another case than the list spells it
C8_Witness ==
    /\ Evaluated /\ Unforced /\ Configured
    /\ KeywordInLastThree(route_args.messages)
    /\ \A k \in DOMAIN COMPLEX_TASK_KEYWORDS :
          ~Contains(JoinedContent(route_args.messages,
                                  FirstRecent(route_args.messages),
                                  Len(route_args.messages)),
                    COMPLEX_TASK_KEYWORDS[k])
    /\ SumOfLengths(route_args.messages) <= LENGTH_THRESHOLD
    /\ use_cloud[1].use_cloud = TRUE

\* C9: with no flag, a credential and no keyword in the last three messages,
\* the decision is cloud exactly when the contents total more than 8000
\* characters.
C9_LengthThreshold ==
    (Evaluated /\ Unforced /\ Configured /\ ~KeywordInLastThree(route_args.messages)) =>
        \A d \in Decisions :
            d = (SumOfLengths(route_args.messages) > LENGTH_THRESHOLD)

\* decided local for contents of exactly 8000 characters in two messages
C9_Witness ==
    /\ Evaluated /\ Unforced /\ Configured
    /\ Len(route_args.messages) = 2
    /\ SumOfLengths(route_args.messages) = LENGTH_THRESHOLD
    /\ use_cloud[1].use_cloud = FALSE

\* C10: evaluations with the same messages, options and credential give the
\* same decision, whatever the breaker was at each of them.
C10_Deterministic ==
    \A i, j \in DOMAIN use_cloud : use_cloud[i].use_cloud = use_cloud[j].use_cloud

\* decided twice, once with the circuit closed and once with it open, for
\* arguments whose decision rests on the messages
C10_Witness ==
    /\ Len(use_cloud) >= 2
    /\ Unforced /\ Configured
    /\ use_cloud[1].circuit_open # use_cloud[2].circuit_open
    /\ use_cloud[1].use_cloud = use_cloud[2].use_cloud

-----------------------------------------------------------------------------
(* The private-network filter, _is_public_http_url                         *)

Min(S) == CHOOSE i \in S : \A j \in S : i <= j
Max(S) == CHOOSE i \in S : \A j \in S : i >= j

\* s.find(c) and s.rfind(c) of one character, counted from 1; 0 for not found
Find(s, c) ==
    LET at == { i \in 1..Len(s) : SubSeq(s, i, i) = c }
    IN  IF at = {} THEN 0 ELSE Min(at)
RFind(s, c) ==
    LET at == { i \in 1..Len(s) : SubSeq(s, i, i) = c }
    IN  IF at = {} THEN 0 ELSE Max(at)
\* the first place of s that holds a character of cs
FindAny(s, cs) ==
    LET at == { i \in 1..Len(s) : Contains(cs, SubSeq(s, i, i)) }
    IN  IF at = {} THEN 0 ELSE Min(at)

StartsWith(s, prefix) ==
    Len(s) >= Len(prefix) /\ SubSeq(s, 1, Len(prefix)) = prefix
EndsWith(s, suffix) ==
    Len(s) >= Len(suffix) /\ SubSeq(s, Len(s) - Len(suffix) + 1, Len(s)) = suffix

\* str.strip(): without the whitespace at both ends
WHITESPACE == " \t\n\r\f"
IsSpace(c) == Contains(WHITESPACE, c)
\* the first and the last place in lo..hi of s that holds no whitespace, 0 for none
RECURSIVE FirstVisible(_, _, _)
FirstVisible(s, lo, hi) ==
    IF lo > hi THEN 0
    ELSE IF lo = hi THEN (IF IsSpace(SubSeq(s, lo, lo)) THEN 0 ELSE lo)
    ELSE LET mid == (lo + hi) \div 2
             left == FirstVisible(s, lo, mid)
         IN  IF left # 0 THEN left ELSE FirstVisible(s, mid + 1, hi)
RECURSIVE LastVisible(_, _, _)
LastVisible(s, lo, hi) ==
    IF lo > hi THEN 0
    ELSE IF lo = hi THEN (IF IsSpace(SubSeq(s, lo, lo)) THEN 0 ELSE lo)
    ELSE LET mid == (lo + hi) \div 2
             right == LastVisible(s, mid + 1, hi)
         IN  IF right # 0 THEN right ELSE LastVisible(s, lo, mid)
Strip(s) ==
    LET first == FirstVisible(s, 1, Len(s))
    IN  IF first = 0 THEN "" ELSE SubSeq(s, first, LastVisible(s, 1, Len(s)))

DIGITS == "0123456789"
SCHEME_CHARS == ASCII_LOWERCASE \o ASCII_UPPERCASE \o DIGITS \o "+-."

\* urlsplit: the scheme is what precedes the first ':' when that is a letter
\* followed by scheme characters; it is lowercased
HasScheme(url) ==
    LET i == Find(url, ":")
    IN  /\ i > 1
        /\ Contains(ASCII_LOWERCASE \o ASCII_UPPERCASE, SubSeq(url, 1, 1))
        /\ \A j \in 1..(i - 1) : Contains(SCHEME_CHARS, SubSeq(url, j, j))
UrlScheme(url) ==
    IF HasScheme(url) THEN Lower(SubSeq(url, 1, Find(url, ":") - 1)) ELSE ""

\* urlsplit: the netloc follows '//' and ends before the first of / ? #
UrlNetloc(url) ==
    LET rest == IF HasScheme(url) THEN SubSeq(url, Find(url, ":") + 1, Len(url))
                ELSE url
    IN  IF StartsWith(rest, "//")
        THEN LET body == SubSeq(rest, 3, Len(rest))
                 d == FindAny(body, "/?#")
             IN  IF d = 0 THEN body ELSE SubSeq(body, 1, d - 1)
        ELSE ""

\* urlsplit raises ValueError for a bracket that is not closed
InvalidNetloc(netloc) ==
    \/ Find(netloc, "[") > 0 /\ Find(netloc, "]") = 0
    \/ Find(netloc, "]") > 0 /\ Find(netloc, "[") = 0

\* SplitResult.hostname: what follows the last '@', without the brackets of
\* an IPv6 literal or else without ':port', lowercased
UrlHostname(url) ==
    LET netloc == UrlNetloc(url)
        hostinfo == SubSeq(netloc, RFind(netloc, "@") + 1, Len(netloc))
    IN  IF StartsWith(hostinfo, "[")
        THEN Lower(SubSeq(hostinfo, 2, Find(hostinfo, "]") - 1))
        ELSE LET c == Find(hostinfo, ":")
             IN  Lower(IF c = 0 THEN hostinfo ELSE SubSeq(hostinfo, 1, c - 1))

\* s.split('.')
RECURSIVE SplitDots(_)
SplitDots(s) ==
    LET d == Find(s, ".")
    IN  IF d = 0 THEN << s >>
        ELSE << SubSeq(s, 1, d - 1) >> \o SplitDots(SubSeq(s, d + 1, Len(s)))

\* int(s) of a string of decimal digits
RECURSIVE DecimalValue(_)
DecimalValue(s) ==
    IF Len(s) = 0 THEN 0
    ELSE 10 * DecimalValue(SubSeq(s, 1, Len(s) - 1))
         + (Find(DIGITS, SubSeq(s, Len(s), Len(s))) - 1)

\* ipaddress: an octet is one to three decimal digits without a leading
\* zero, at most 255
IsOctet(s) ==
    /\ Len(s) \in 1..3
    /\ \A j \in 1..Len(s) : Contains(DIGITS, SubSeq(s, j, j))
    /\ Len(s) > 1 => SubSeq(s, 1, 1) # "0"
    /\ DecimalValue(s) <= 255

\* ipaddress.IPv4Address(host): the four octets, or None for ValueError
IPv4Address(host) ==
    LET parts == SplitDots(host)
    IN  IF Len(parts) = 4 /\ \A i \in 1..4 : IsOctet(parts[i])
        THEN Some([i \in 1..4 |-> DecimalValue(parts[i])])
        ELSE None

\* mutant: 172.16.0.0/12 taken for 172.16.0.0/16
IPv4IsPrivateNarrow(ip) ==
    \/ ip[1] = 0
    \/ ip[1] = 10
    \/ ip[1] = 127
    \/ ip[1] = 169 /\ ip[2] = 254
    \/ ip[1] = 172 /\ ip[2] = 16
    \/ ip[1] = 192 /\ ip[2] = 0 /\ ip[3] = 0 /\ (ip[4] < 8 \/ ip[4] \in {170, 171})
    \/ ip[1] = 192 /\ ip[2] = 0 /\ ip[3] = 2
    \/ ip[1] = 192 /\ ip[2] = 168
    \/ ip[1] = 198 /\ ip[2] \in {18, 19}
    \/ ip[1] = 198 /\ ip[2] = 51 /\ ip[3] = 100
    \/ ip[1] = 203 /\ ip[2] = 0 /\ ip[3] = 113
    \/ ip[1] >= 240

\* IPv4Address.is_private: the networks of ipaddress._IPv4Constants
IPv4IsPrivate(ip) ==
    \/ ip[1] = 0
    \/ ip[1] = 10
    \/ ip[1] = 127
    \/ ip[1] = 169 /\ ip[2] = 254
    \/ ip[1] = 172 /\ ip[2] \in 16..31
    \/ ip[1] = 192 /\ ip[2] = 0 /\ ip[3] = 0 /\ (ip[4] < 8 \/ ip[4] \in {170, 171})
    \/ ip[1] = 192 /\ ip[2] = 0 /\ ip[3] = 2
    \/ ip[1] = 192 /\ ip[2] = 168
    \/ ip[1] = 198 /\ ip[2] \in {18, 19}
    \/ ip[1] = 198 /\ ip[2] = 51 /\ ip[3] = 100
    \/ ip[1] = 203 /\ ip[2] = 0 /\ ip[3] = 113
    \/ ip[1] >= 240
IPv4IsLoopback(ip) == ip[1] = 127
IPv4IsLinkLocal(ip) == ip[1] = 169 /\ ip[2] = 254
IPv4IsReserved(ip) == ip[1] >= 240
IPv4IsMulticast(ip) == ip[1] \in 224..239

\* line 80 for an IPv4 literal
IPv4Blocked(ip) ==
    \/ IPv4IsPrivate(ip) \/ IPv4IsLoopback(ip) \/ IPv4IsLinkLocal(ip)
    \/ IPv4IsReserved(ip) \/ IPv4IsMulticast(ip)

\* line 80 for an IPv6 literal (a host with a ':'), told by its first group
\* of hex digits, written without leading zeros: ::/8 up to 800::/5 and the
\* blocks outside 2000::/3 are reserved, fc00::/7 is private, fe80::/10
\* link-local, ff00::/8 multicast; fec0::/10 is none of these. The special
\* blocks inside 2001::/16 are not told apart from the rest of 2000::/3.
IPv6Blocked(host) ==
    LET c == Find(host, ":")
        group == SubSeq(host, 1, c - 1)
        g(i) == SubSeq(group, i, i)
    IN  IF Len(group) < 4 THEN TRUE
        ELSE IF Contains("23", g(1)) THEN FALSE
        ELSE IF g(1) = "f" /\ g(2) = "e" /\ Contains("cdef", g(3)) THEN FALSE
        ELSE TRUE

\* _is_public_http_url, lines 63-88
IsPublicHttpUrl(url) ==
    IF InvalidNetloc(UrlNetloc(url)) THEN FALSE
    ELSE IF UrlScheme(url) \notin {"http", "https"} THEN FALSE
    ELSE LET host == Strip(UrlHostname(url))
         IN  IF host = "" THEN FALSE
             ELSE IF host \in {"localhost", "127.0.0.1", "::1"} THEN FALSE
             ELSE IF EndsWith(host, ".local") \/ EndsWith(host, ".internal") THEN FALSE
             ELSE IF Find(host, ":") > 0 THEN ~IPv6Blocked(host)
             ELSE IF IPv4Address(host) # None THEN ~IPv4Blocked(IPv4Address(host)[1])
             ELSE TRUE

\* URLs are written from parts, so that what the filter makes of the text
\* can be held against the parts: what precedes the host (and whether that
\* is the http or https scheme), userinfo, the host (its kind, and whether
\* it is an IPv6 literal, written in brackets), a port, and the rest
UrlPrefix(prefix, http) == [text |-> prefix, http |-> http]
UrlPrefixes ==
    { UrlPrefix("http://", TRUE), UrlPrefix("https://", TRUE), UrlPrefix("HTTP://", TRUE),
      UrlPrefix("ftp://", FALSE), UrlPrefix("file://", FALSE), UrlPrefix("//", FALSE),
      UrlPrefix("", FALSE) }

UrlHost(host, kind, v6) == [text |-> host, kind |-> kind, v6 |-> v6]
UrlHosts ==
    { UrlHost("example.com", "public", FALSE), UrlHost("EXAMPLE.COM", "public", FALSE),
      UrlHost("localhost.example.com", "public", FALSE), UrlHost("local", "public", FALSE),
      UrlHost("mylocal", "public", FALSE), UrlHost("a.internal.example.com", "public", FALSE),
      UrlHost("localhost", "localhost", FALSE), UrlHost("LocalHost", "localhost", FALSE),
      UrlHost("internal.local", "dot_local", FALSE), UrlHost("printer.LOCAL", "dot_local", FALSE),
      UrlHost("svc.internal", "dot_internal", FALSE),
      UrlHost("db.corp.Internal", "dot_internal", FALSE),
      UrlHost("127.0.0.1", "loopback", FALSE), UrlHost("127.0.0.2", "loopback", FALSE),
      UrlHost("127.255.255.254", "loopback", FALSE), UrlHost("::1", "loopback", TRUE),
      UrlHost("10.0.0.5", "private", FALSE), UrlHost("172.16.0.1", "private", FALSE),
      UrlHost("172.31.255.255", "private", FALSE), UrlHost("192.168.1.1", "private", FALSE),
      UrlHost("fd00::1", "private", TRUE),
      UrlHost("169.254.169.254", "link_local", FALSE), UrlHost("fe80::1", "link_local", TRUE),
      UrlHost("240.0.0.1", "reserved", FALSE), UrlHost("255.255.255.255", "reserved", FALSE),
      UrlHost("224.0.0.1", "multicast", FALSE), UrlHost("239.255.255.250", "multicast", FALSE),
      UrlHost("ff02::1", "multicast", TRUE),
      UrlHost("8.8.8.8", "public", FALSE), UrlHost("9.255.255.255", "public", FALSE),
      UrlHost("11.0.0.1", "public", FALSE), UrlHost("126.255.255.255", "public", FALSE),
      UrlHost("128.0.0.1", "public", FALSE), UrlHost("169.255.0.1", "public", FALSE),
      UrlHost("172.15.255.255", "public", FALSE), UrlHost("172.32.0.1", "public", FALSE),
      UrlHost("192.169.0.1", "public", FALSE), UrlHost("223.255.255.255", "public", FALSE),
      UrlHost("2606:4700::1111", "public", TRUE) }

UrlParts ==
    [prefix : UrlPrefixes, userinfo : {"", "127.0.0.1:80@"}, host : UrlHosts,
     port : {"", ":9999"},
     rest : {"", "/", "/x", "/page", "?next=http://localhost/", "/a@b"}]

UrlText(parts) ==
    parts.prefix.text \o parts.userinfo
    \o (IF parts.host.v6 THEN "[" \o parts.host.text \o "]" ELSE parts.host.text)
    \o parts.port \o parts.rest

InitUrl ==
    /\ OLLAMA_FAILURE_COUNT = 0
    /\ OLLAMA_CIRCUIT_OPEN_UNTIL = 0
    /\ MOONSHOT_API_KEY = ""
    /\ now = 0
    /\ pc = [r \in Requests |-> "idle"]
    /\ frame = [r \in Requests |-> NoFrame]
    /\ result = NoResult
    /\ failedSinceSuccess = 0
    /\ trippedAt = -1
    /\ route_args = <<>>
    /\ use_cloud = <<>>
    /\ caller = [r \in Requests |-> NoCaller]
    /\ response = NoResponse
    /\ \E parts \in UrlParts : raw_url = [url |-> UrlText(parts), parts |-> parts]
    /\ is_public = None
    /\ document_text = ""
    /\ chunks = None
    /\ OPENAI_API_KEY = ""
    /\ qdrant = NoStore
    /\ uuid_count = 0
    /\ served = 0
    /\ request = NoRequest
    /\ job = NoJob
    /\ outbound = <<>>
    /\ NoPresence
    /\ NoStream

\* _is_public_http_url(raw_url) is called and returns
IsPublicHttpUrlCall ==
    /\ is_public = None
    /\ is_public' = Some(IsPublicHttpUrl(raw_url.url))
    /\ UNCHANGED <<breakerVars, MOONSHOT_API_KEY, now, requestVars, result, historyVars,
                   routeVars, serveVars, raw_url, document_text, chunks, OPENAI_API_KEY,
                   qdrant, uuid_count, served, request, job, outbound, presenceVars, event_stream>>

SpecUrl == InitUrl /\ [][IsPublicHttpUrlCall]_vars

\* C18: the filter accepts a URL exactly when it is written with the http or
\* https scheme and a host that is neither localhost, nor a loopback,
\* link-local, private, reserved or multicast address, nor a name ending in
\* .local or .internal; it rejects http://127.0.0.1/x, http://localhost:9999,
\* http://10.0.0.5/ and http://internal.local/ and accepts
\* https://example.com/page.
C18_UrlFilter ==
    is_public # None =>
        /\ is_public[1] = (raw_url.parts.prefix.http /\ raw_url.parts.host.kind = "public")
        /\ raw_url.url \in {"http://127.0.0.1/x", "http://localhost:9999",
                            "http://10.0.0.5/", "http://internal.local/"}
           => is_public[1] = FALSE
        /\ raw_url.url = "https://example.com/page" => is_public[1] = TRUE

\* a private address of 172.16.0.0/12 outside 172.16.0.0/16 was rejected
C18_Witness ==
    /\ raw_url.url = "http://172.31.255.255/x"
    /\ is_public = Some(FALSE)

-----------------------------------------------------------------------------
(* Chunking, _chunk_text                                                   *)

CHUNK_SIZE == 500
CHUNK_OVERLAP == 50

\* s[a:b] for 0 <= a
Slice(s, a, b) == SubSeq(s, a + 1, IF b < Len(s) THEN b ELSE Len(s))

\* mutant: the next chunk starts where the last one ended
RECURSIVE ChunkLoopNoOverlap(_, _, _, _)
ChunkLoopNoOverlap(s, start, chunk_size, overlap) ==
    IF ~(start < Len(s)) THEN <<>>
    ELSE LET end == start + chunk_size
             chunk == Slice(s, start, end)
             break_point == Max({RFind(chunk, "."), RFind(chunk, "\n")}) - 1
             cut == end < Len(s) /\ break_point > chunk_size \div 2
         IN  IF cut
             THEN << Strip(Slice(s, start, start + break_point + 1)) >>
                  \o ChunkLoopNoOverlap(s, start + break_point + 1, chunk_size, overlap)
             ELSE << Strip(chunk) >>
                  \o ChunkLoopNoOverlap(s, end, chunk_size, overlap)

\* mutant: a sentence boundary before the midpoint cuts the chunk as well
RECURSIVE ChunkLoopCuttingEarly(_, _, _, _)
ChunkLoopCuttingEarly(s, start, chunk_size, overlap) ==
    IF ~(start < Len(s)) THEN <<>>
    ELSE LET end == start + chunk_size
             chunk == Slice(s, start, end)
             break_point == Max({RFind(chunk, "."), RFind(chunk, "\n")}) - 1
             cut == end < Len(s) /\ break_point > overlap
         IN  IF cut
             THEN << Strip(Slice(s, start, start + break_point + 1)) >>
                  \o ChunkLoopCuttingEarly(s, start + break_point + 1 - overlap,
                                           chunk_size, overlap)
             ELSE << Strip(chunk) >>
                  \o ChunkLoopCuttingEarly(s, end - overlap, chunk_size, overlap)

\* lines 509-523: the chunks appended from offset start on
RECURSIVE ChunkLoop(_, _, _, _)
ChunkLoop(s, start, chunk_size, overlap) ==
    IF ~(start < Len(s)) THEN <<>>
    ELSE LET end == start + chunk_size
             chunk == Slice(s, start, end)
             \* rfind counts from 0 and gives -1 for not found
             break_point == Max({RFind(chunk, "."), RFind(chunk, "\n")}) - 1
             cut == end < Len(s) /\ break_point > chunk_size \div 2
         IN  IF cut
             THEN << Strip(Slice(s, start, start + break_point + 1)) >>
                  \o ChunkLoop(s, start + break_point + 1 - overlap, chunk_size, overlap)
             ELSE << Strip(chunk) >>
                  \o ChunkLoop(s, end - overlap, chunk_size, overlap)

\* lines 509-523: where the chunks appended from offset start on lie in the
\* text, each as the slice text[start:end] that is stripped at line 522
RECURSIVE ChunkSpans(_, _, _, _)
ChunkSpans(s, start, chunk_size, overlap) ==
    IF ~(start < Len(s)) THEN <<>>
    ELSE LET end == start + chunk_size
             chunk == Slice(s, start, end)
             break_point == Max({RFind(chunk, "."), RFind(chunk, "\n")}) - 1
             cut == end < Len(s) /\ break_point > chunk_size \div 2
             stop == IF cut THEN start + break_point + 1 ELSE end
         IN  << [start |-> start, end |-> Min({stop, Len(s)})] >>
             \o ChunkSpans(s, stop - overlap, chunk_size, overlap)

NonEmpty(c) == c # ""

\* _chunk_text, lines 502-525
ChunkText(s, chunk_size, overlap) ==
    IF Len(s) <= chunk_size THEN << s >>
    ELSE SelectSeq(ChunkLoop(s, 0, chunk_size, overlap), NonEmpty)

\* the first n characters of pattern repeated
Cycle(pattern, n) ==
    Repeat(pattern, n \div Len(pattern)) \o SubSeq(pattern, 1, n % Len(pattern))

\* texts to chunk: of lengths around the chunk size and its multiples,
\* written as one long word, as words, as sentences, as lines, and as two
\* words with blank space between them, and as one sentence that ends before,
\* at and just past the midpoint of the first chunk
TextLengths ==
    {0, 1, 2, 250, 499, 500, 501, 502, 700, 949, 950, 951, 1000, 1200, 1201,
     1350, 1351, 1400}
BlankMiddle(n) ==
    IF n < 200 THEN Repeat(" ", n)
    ELSE Repeat("x", 100) \o Repeat(" ", n - 200) \o Repeat("y", 100)
PeriodAt(i, n) ==
    IF n <= i THEN Repeat("x", n)
    ELSE Repeat("x", i) \o "." \o Repeat("y", n - i - 1)
Texts ==
    UNION { { Cycle("abcdefg", n), Cycle("lorem ipsum ", n),
              Cycle("One sentence of words. ", n), Cycle("a line of text\n", n),
              BlankMiddle(n), PeriodAt(100, n), PeriodAt(250, n), PeriodAt(251, n) }
            : n \in TextLengths }

InitChunk ==
    /\ OLLAMA_FAILURE_COUNT = 0
    /\ OLLAMA_CIRCUIT_OPEN_UNTIL = 0
    /\ MOONSHOT_API_KEY = ""
    /\ now = 0
    /\ pc = [r \in Requests |-> "idle"]
    /\ frame = [r \in Requests |-> NoFrame]
    /\ result = NoResult
    /\ failedSinceSuccess = 0
    /\ trippedAt = -1
    /\ route_args = <<>>
    /\ use_cloud = <<>>
    /\ caller = [r \in Requests |-> NoCaller]
    /\ response = NoResponse
    /\ raw_url = [url |-> "", parts |-> <<>>]
    /\ is_public = None
    /\ document_text \in Texts
    /\ chunks = None
    /\ OPENAI_API_KEY = ""
    /\ qdrant = NoStore
    /\ uuid_count = 0
    /\ served = 0
    /\ request = NoRequest
    /\ job = NoJob
    /\ outbound = <<>>
    /\ NoPresence
    /\ NoStream

\* _chunk_text(document_text) is called and returns (line 603)
ChunkTextCall ==
    /\ chunks = None
    /\ chunks' = Some(ChunkText(document_text, CHUNK_SIZE, CHUNK_OVERLAP))
    /\ UNCHANGED <<breakerVars, MOONSHOT_API_KEY, now, requestVars, result, historyVars,
                   routeVars, serveVars, raw_url, is_public, document_text, OPENAI_API_KEY,
                   qdrant, uuid_count, served, request, job, outbound, presenceVars, event_stream>>

SpecChunk == InitChunk /\ [][ChunkTextCall]_vars

\* the text has no period and no newline
NoSentenceBreak(s) == Find(s, ".") = 0 /\ Find(s, "\n") = 0

\* chunks of 500 that start every 450 characters: how many of them a text of
\* length n has, and the k-th of them
WindowCount(n) ==
    IF n <= CHUNK_SIZE THEN 1 ELSE (n - 1) \div (CHUNK_SIZE - CHUNK_OVERLAP) + 1
WindowAt(s, k) ==
    Slice(s, (k - 1) * (CHUNK_SIZE - CHUNK_OVERLAP),
             (k - 1) * (CHUNK_SIZE - CHUNK_OVERLAP) + CHUNK_SIZE)
\* what _chunk_text returns when it cuts at the windows and at no other place
CutAtWindows(s) ==
    /\ Len(chunks[1]) = WindowCount(Len(s))
    /\ Len(s) > CHUNK_SIZE
       => \A k \in 1..WindowCount(Len(s)) : chunks[1][k] = Strip(WindowAt(s, k))

\* C20 as stated: a text without sentence breaks of length L <= 500 gives one
\* chunk, a longer one a chunk every 450 characters, whatever it holds: one
\* of 1200 characters gives three, from the offsets 0, 450 and 900.
C20_ChunkCountByLength ==
    (chunks # None /\ NoSentenceBreak(document_text))
    => /\ CutAtWindows(document_text)
       /\ Len(document_text) = 1200 => Len(chunks[1]) = 3

\* C20 amended: the same for a text without sentence breaks of which every
\* stretch of 500 characters from an offset 0, 450, 900, ... holds a
\* character that is no whitespace.
C20_ChunkCountByLengthOfVisibleText ==
    ( /\ chunks # None
      /\ NoSentenceBreak(document_text)
      /\ \A k \in 1..WindowCount(Len(document_text)) :
            Len(document_text) > CHUNK_SIZE => Strip(WindowAt(document_text, k)) # "" )
    => /\ CutAtWindows(document_text)
       /\ Len(document_text) = 1200 => Len(chunks[1]) = 3

\* 1200 characters of words were cut into three chunks
C20_Witness ==
    /\ document_text = Cycle("lorem ipsum ", 1200)
    /\ chunks # None
    /\ Len(chunks[1]) = 3
    /\ chunks[1][2] = Strip(Slice(document_text, 450, 950))

\* C21: when a text longer than the chunk size is chunked, every chunk
\* after the first starts 50 characters before the end of the chunk before
\* it and reaches beyond that end, so that it holds text the chunk before
\* it does not.
C21_OverlapsAndAdds ==
    (chunks # None /\ Len(document_text) > CHUNK_SIZE)
    => LET spans == ChunkSpans(document_text, 0, CHUNK_SIZE, CHUNK_OVERLAP)
       IN  \A k \in 2..Len(spans) :
              /\ spans[k].start = spans[k - 1].end - CHUNK_OVERLAP
              /\ spans[k].end > spans[k - 1].end

-----------------------------------------------------------------------------
(* Knowledge ingest, page proxy and page fetch: one request at a time, one *)
(* action per block between awaits                                         *)

OLLAMA_URL == "http://127.0.0.1:11434"
QDRANT_URL == "http://127.0.0.1:6333"
QDRANT_COLLECTION == "alabobai_knowledge"
EMBEDDING_DIMENSION == 1536

\* a request a handler sends out: what it is for, and method, URL,
\* certificate verification and JSON body as given to httpx
Request(purpose, method, url, verify, body) ==
    [purpose |-> purpose, method |-> method, url |-> url, verify |-> verify, body |-> body]
\* client.get(url, headers=headers) with follow_redirects=True
FetchRequest(url, verify) == Request("fetch", "GET", url, verify, <<>>)
\* lines 436-439
OllamaEmbeddingsRequest(prompt) ==
    Request("embedding", "POST", OLLAMA_URL \o "/api/embeddings", TRUE,
            [model |-> "nomic-embed-text", prompt |-> prompt])
\* lines 453-463
OpenAiEmbeddingsRequest(input) ==
    Request("embedding", "POST", "https://api.openai.com/v1/embeddings", TRUE,
            [model |-> "text-embedding-ada-002", input |-> Slice(input, 0, 8000)])
\* line 478
CollectionCheckRequest ==
    Request("vector_store", "GET", QDRANT_URL \o "/collections/" \o QDRANT_COLLECTION,
            TRUE, <<>>)
\* lines 487-495
CollectionPutRequest(dim) ==
    Request("vector_store", "PUT", QDRANT_URL \o "/collections/" \o QDRANT_COLLECTION,
            TRUE, [size |-> dim, distance |-> "Cosine"])
\* lines 632-635
PointsPutRequest(points) ==
    Request("vector_store", "PUT",
            QDRANT_URL \o "/collections/" \o QDRANT_COLLECTION \o "/points?wait=true",
            TRUE, [points |-> points])

\* a handler's reply: a JSONResponse with an error, or a dict (200)
JsonReply(status_code, error, body) ==
    [status_code |-> status_code, media_type |-> "application/json",
     error |-> error, body |-> body]

\* what a fetch comes back with: a page, given with what the handlers'
\* regular expressions make of its HTML (title: the first <title> element,
\* stripped; text: scripts, styles and tags replaced by spaces, whitespace
\* collapsed; extract: tags replaced by spaces, whitespace collapsed;
\* sanitized: scripts removed), or an exception
Page(html, title, text, extract, sanitized) ==
    [kind |-> "page", html |-> html, title |-> title, text |-> text,
     extract |-> extract, sanitized |-> sanitized]
Pages ==
    { Page("", "", "", "", ""),
      Page("<html><head><title>Example Domain</title></head><body><p>Hello world.</p></body></html>",
           "Example Domain", "Example Domain Hello world.", "Example Domain Hello world.",
           "<html><head><title>Example Domain</title></head><body><p>Hello world.</p></body></html>"),
      Page("<TITLE> News </TITLE><script>var x = 1;</script><style>p { }</style><p>A   B</p>",
           "News", "News A B", "News var x = 1; p { } A B",
           "<TITLE> News </TITLE><style>p { }</style><p>A   B</p>") }
Raised(type, message) == [kind |-> "exception", type |-> type, message |-> message]
FetchExceptions ==
    { Raised("ConnectError", "[SSL: CERTIFICATE_VERIFY_FAILED] certificate verify failed"),
      Raised("ConnectError", "All connection attempts failed"),
      Raised("ReadTimeout", "") }
FetchOutcomes == Pages \cup FetchExceptions

\* what an embeddings request comes back with: a success with an embedding,
\* given by its length (0: the key is missing or the list is empty), a
\* response that is no success, or an exception
Embedded(dim) == [kind |-> "ok", dim |-> dim]
EmbeddingOutcomes(dims) ==
    { Embedded(d) : d \in dims \cup {0} }
    \cup { [kind |-> "http_error", dim |-> 0], [kind |-> "exception", dim |-> 0] }
OllamaEmbeddingOutcomes == EmbeddingOutcomes({768})
OpenAiEmbeddingOutcomes == EmbeddingOutcomes({1536})

\* the points of the store after sent were put into it: a point takes the
\* place of the one that had its identifier
Upserted(points, sent) ==
    LET ids == { sent[k].id : k \in 1..Len(sent) }
    IN  [id \in DOMAIN points \cup ids |->
            IF id \in ids
            THEN sent[CHOOSE k \in 1..Len(sent) :
                         sent[k].id = id /\ \A l \in (k + 1)..Len(sent) : sent[l].id # id]
            ELSE points[id]]

\* what a vector-store request comes back with: the store answers the check
\* with 200 when it has the collection and with 404 when it has not, creates
\* the collection that it answers with 200, and takes in the points that it
\* answers with 200; it may fail at any request and then changes nothing
StoreOutcome(kind, status_code, message) ==
    [kind |-> kind, status_code |-> status_code, message |-> message]
StoreOutcomes ==
    { StoreOutcome("response", 200, ""), StoreOutcome("response", 404, ""),
      StoreOutcome("response", 500, ""),
      StoreOutcome("exception", 0, "All connection attempts failed") }

\* the handler returns resp
Reply(resp) ==
    /\ job' = NoJob
    /\ outbound' = <<>>
    /\ response' = resp
\* the handler sends req and awaits its outcome as j
Await(j, req) ==
    /\ job' = j
    /\ outbound' = << req >>
    /\ response' = NoResponse
\* what the handlers of this section leave alone
KnowledgeFrame ==
    UNCHANGED <<breakerVars, MOONSHOT_API_KEY, now, requestVars, result, historyVars,
                routeVars, caller, raw_url, is_public, document_text, chunks,
                OPENAI_API_KEY, presenceVars, event_stream>>

\* how many requests the three handlers take in SpecKnowledge, and how many
\* ingest requests in SpecIngest
MaxServed == 1
MaxIngests == 2

\* what clients send. A URL is given as it stands in the payload; proxy
\* hands it to the filter as it is, so its URLs are written without
\* surrounding whitespace
KnowledgeUrls ==
    {"", "https://example.com/page", "ftp://example.com/f", "http://127.0.0.1/x",
     "http://localhost:9999", "http://10.0.0.5/", "http://internal.local/",
     "http://169.254.169.254/latest/meta-data"}
PaddedUrls == {"  https://example.com/page ", " http://10.0.0.5/ ", "   "}
IngestPayload(valid, text, content, url, title) ==
    [valid |-> valid, text |-> text, content |-> content, url |-> url, title |-> title]
IngestPayloads ==
    { IngestPayload(TRUE, t, c, u, title) :
        t \in {"", " A short note. ", Cycle("lorem ipsum ", 1200)},
        c \in {"", "Content comes first."},
        u \in KnowledgeUrls \cup PaddedUrls,
        title \in {"Untitled", "Notes"} }
    \cup { IngestPayload(FALSE, "", "", "", "") }
ProxyPayloads ==
    [action : {"search", "extract", "fetch"}, url : KnowledgeUrls, query : {"local models"}]
FetchPagePayloads == [url : KnowledgeUrls \cup PaddedUrls]

\* the locals of local_ai_knowledge_ingest that are live across its awaits,
\* with those of _ensure_qdrant_collection and _get_embedding while it is
\* in them: context is the caller of _get_embedding, prompt its argument
IngestJob(url, title, doc) ==
    [handler |-> "local_ai_knowledge_ingest", pc |-> "fetch", url |-> url, title |-> title,
     document_text |-> doc, chunks |-> <<>>, i |-> 0, points |-> <<>>,
     ingested_count |-> 0, context |-> "", prompt |-> "", dim |-> 0]
\* the locals of proxy and of fetch_page
FetchJob(handler, url, action) ==
    [handler |-> handler, pc |-> "fetch", url |-> url, action |-> action]

\* lines 643-653 (source is carried along unread and left out)
IngestReply(j) ==
    JsonReply(200, "", [success |-> TRUE, title |-> j.title, url |-> j.url,
                        chunks |-> j.ingested_count,
                        totalLength |-> Len(j.document_text)])

\* a point that takes its identifier from the place of its chunk in the text
PointKeyedByChunk(j, dim) ==
    [id |-> j.i + 1, vector |-> dim, text |-> j.chunks[j.i + 1],
     title |-> j.title, url |-> j.url,
     chunk_index |-> j.i, total_chunks |-> Len(j.chunks)]

\* lines 612-626: a point, its vector given by its length and its
\* identifier, which uuid.uuid4() makes anew at every call, by the number of
\* the call (the timestamp, the source and the metadata are left out)
Point(j, dim) ==
    [id |-> uuid_count + 1, vector |-> dim, text |-> j.chunks[j.i + 1],
     title |-> j.title, url |-> j.url,
     chunk_index |-> j.i, total_chunks |-> Len(j.chunks)]

\* _get_embedding(text) is called for context: lines 435-439
GetEmbedding(j, context, text) ==
    Await([j EXCEPT !.pc = "embed_ollama", !.context = context, !.prompt = text],
          OllamaEmbeddingsRequest(text))

\* lines 629-653: the points are stored, if there are any
StorePoints(j) ==
    IF j.points # <<>>
    THEN Await([j EXCEPT !.pc = "upsert"], PointsPutRequest(j.points))
    ELSE Reply(IngestReply(j))

\* lines 603-610: _ensure_qdrant_collection has returned (what it returned
\* is not looked at); the text is chunked and the first chunk embedded
EmbedChunks(j) ==
    LET cs == ChunkText(j.document_text, CHUNK_SIZE, CHUNK_OVERLAP)
    IN  IF Len(cs) = 0 THEN StorePoints([j EXCEPT !.chunks = cs])
        ELSE GetEmbedding([j EXCEPT !.chunks = cs, !.i = 0], "chunk", cs[1])

\* the loop over the chunks counting a chunk that has no embedding
EmbeddingReturnedCountingSkipped(j, dim) ==
    IF j.context = "test"
    THEN LET size == IF dim > 0 THEN dim ELSE EMBEDDING_DIMENSION
         IN  /\ Await([j EXCEPT !.pc = "collection_put", !.dim = size],
                      CollectionPutRequest(size))
             /\ uuid_count' = uuid_count
    ELSE LET stored == IF dim > 0
                       THEN [j EXCEPT !.points = Append(@, Point(j, dim)),
                                      !.ingested_count = @ + 1]
                       ELSE [j EXCEPT !.ingested_count = @ + 1]
         IN  /\ IF stored.i + 1 < Len(stored.chunks)
                THEN GetEmbedding([stored EXCEPT !.i = @ + 1], "chunk",
                                  stored.chunks[stored.i + 2])
                ELSE StorePoints(stored)
             /\ uuid_count' = IF dim > 0 THEN uuid_count + 1 ELSE uuid_count

\* _get_embedding returns an embedding of length dim (0: None or empty) to
\* _ensure_qdrant_collection (lines 485-495) or to the loop over the
\* chunks (lines 611-627, then the next chunk or lines 629-635)
EmbeddingReturned(j, dim) ==
    IF j.context = "test"
    THEN LET size == IF dim > 0 THEN dim ELSE EMBEDDING_DIMENSION
         IN  /\ Await([j EXCEPT !.pc = "collection_put", !.dim = size],
                      CollectionPutRequest(size))
             /\ uuid_count' = uuid_count
    ELSE LET stored == IF dim > 0
                       THEN [j EXCEPT !.points = Append(@, Point(j, dim)),
                                      !.ingested_count = @ + 1]
                       ELSE j
         IN  /\ IF stored.i + 1 < Len(stored.chunks)
                THEN GetEmbedding([stored EXCEPT !.i = @ + 1], "chunk",
                                  stored.chunks[stored.i + 2])
                ELSE StorePoints(stored)
             /\ uuid_count' = IF dim > 0 THEN uuid_count + 1 ELSE uuid_count

\* line 600 calls _ensure_qdrant_collection: line 478
EnsureQdrantCollection(j) ==
    Await([j EXCEPT !.pc = "collection_check"], CollectionCheckRequest)

\* POST /api/local-ai/knowledge/ingest: lines 557-600, up to the first await
IngestOn(payload) ==
    /\ job = NoJob
    /\ request' = Received("local_ai_knowledge_ingest", payload)
    /\ IF ~payload.valid
       THEN Reply(JsonReply(400, "Invalid JSON payload", <<>>))
       ELSE LET text == Strip(payload.text)
                content == Strip(payload.content)
                url == Strip(payload.url)
                doc == IF content # "" THEN content ELSE text
                j == IngestJob(url, payload.title, doc)
            IN  IF url # "" /\ doc = ""
                THEN IF IsPublicHttpUrl(url)
                     THEN Await(j, FetchRequest(url, TRUE))
                     ELSE Reply(JsonReply(400, "Invalid or blocked URL", <<>>))
                ELSE IF doc = ""
                THEN Reply(JsonReply(400, "text, content, or url is required", <<>>))
                ELSE EnsureQdrantCollection(j)
    /\ served' = served + 1
    /\ UNCHANGED <<qdrant, uuid_count>>
    /\ KnowledgeFrame
Ingest == served < MaxServed /\ \E payload \in IngestPayloads : IngestOn(payload)

\* the fetch of line 578 comes back: lines 579-600
IngestFetchReturnOn(o) ==
    /\ job.handler = "local_ai_knowledge_ingest"
    /\ job.pc = "fetch"
    /\ IF o.kind = "exception"
       THEN Reply(JsonReply(400, "Failed to fetch URL: " \o o.message, <<>>))
       ELSE LET j == [job EXCEPT !.document_text = o.text,
                                 !.title = IF @ = "Untitled" /\ o.title # ""
                                           THEN o.title ELSE @]
            IN  IF j.document_text = ""
                THEN Reply(JsonReply(400, "text, content, or url is required", <<>>))
                ELSE EnsureQdrantCollection(j)
    /\ request' = NoRequest
    /\ UNCHANGED <<qdrant, uuid_count, served>>
    /\ KnowledgeFrame
IngestFetchReturn == \E o \in FetchOutcomes : IngestFetchReturnOn(o)

\* the check of line 478 comes back: lines 479-484, or 497-499
CollectionCheckReturnOn(o) ==
    /\ job.pc = "collection_check"
    /\ o.status_code = 200 => qdrant.size # None
    /\ o.status_code = 404 => qdrant.size = None
    /\ IF o.kind = "response" /\ o.status_code # 200
       THEN GetEmbedding(job, "test", "test")
       ELSE EmbedChunks(job)
    /\ request' = NoRequest
    /\ UNCHANGED <<qdrant, uuid_count, served>>
    /\ KnowledgeFrame
CollectionCheckReturn == \E o \in StoreOutcomes : CollectionCheckReturnOn(o)

\* the PUT of line 487 comes back, or raises: lines 496-499
CollectionPutReturnOn(o) ==
    /\ job.pc = "collection_put"
    /\ o.status_code = 200 => qdrant.size = None
    /\ o.status_code # 404
    /\ qdrant' = IF o.status_code = 200 THEN [qdrant EXCEPT !.size = Some(job.dim)]
                 ELSE qdrant
    /\ EmbedChunks(job)
    /\ request' = NoRequest
    /\ UNCHANGED <<uuid_count, served>>
    /\ KnowledgeFrame
CollectionPutReturn == \E o \in StoreOutcomes : CollectionPutReturnOn(o)

\* the POST of line 436 comes back: lines 440-451
EmbedOllamaReturnOn(o) ==
    /\ job.pc = "embed_ollama"
    /\ IF o.kind = "ok" /\ o.dim > 0 THEN EmbeddingReturned(job, o.dim)
       ELSE IF OPENAI_API_KEY # ""
       THEN /\ Await([job EXCEPT !.pc = "embed_openai"],
                     OpenAiEmbeddingsRequest(job.prompt))
            /\ uuid_count' = uuid_count
       ELSE EmbeddingReturned(job, 0)
    /\ request' = NoRequest
    /\ UNCHANGED <<qdrant, served>>
    /\ KnowledgeFrame
EmbedOllamaReturn == \E o \in OllamaEmbeddingOutcomes : EmbedOllamaReturnOn(o)

\* the POST of line 453 comes back: lines 464-470
EmbedOpenAiReturnOn(o) ==
    /\ job.pc = "embed_openai"
    /\ EmbeddingReturned(job, IF o.kind = "ok" THEN o.dim ELSE 0)
    /\ request' = NoRequest
    /\ UNCHANGED <<qdrant, served>>
    /\ KnowledgeFrame
EmbedOpenAiReturn == \E o \in OpenAiEmbeddingOutcomes : EmbedOpenAiReturnOn(o)

\* the PUT of line 632 comes back: lines 636-653
UpsertReturnOn(o) ==
    /\ job.pc = "upsert"
    /\ o.status_code = 200 => qdrant.size # None
    /\ qdrant' = IF o.status_code = 200
                 THEN [qdrant EXCEPT !.points = Upserted(@, job.points)]
                 ELSE qdrant
    /\ IF o.kind = "exception"
       THEN Reply(JsonReply(500, "Vector database error: " \o o.message, <<>>))
       ELSE IF o.status_code # 200
       THEN Reply(JsonReply(500, "Failed to store in vector database", <<>>))
       ELSE Reply(IngestReply(job))
    /\ request' = NoRequest
    /\ UNCHANGED <<uuid_count, served>>
    /\ KnowledgeFrame
UpsertReturn == \E o \in StoreOutcomes : UpsertReturnOn(o)

\* lines 936-947 and 1078-1084: the reply with the page that was fetched
PageReply(j, page) ==
    IF j.handler = "fetch_page"
    THEN JsonReply(200, "", [url |-> j.url, title |-> page.title,
                             content |-> Slice(page.text, 0, 20000)])
    ELSE IF j.action = "extract"
    THEN JsonReply(200, "", [url |-> j.url, title |-> page.title,
                             text |-> Slice(page.extract, 0, 8000)])
    ELSE JsonReply(200, "", [success |-> TRUE, url |-> j.url, title |-> page.title,
                             content |-> "<html><head><base href=\"" \o j.url
                                         \o "\" target=\"_blank\"></head><body>"
                                         \o page.sanitized \o "</body></html>"])

\* POST /api/proxy: lines 903-924
ProxyOn(payload) ==
    /\ job = NoJob
    /\ request' = Received("proxy", payload)
    /\ IF payload.action = "search"
       THEN Reply(JsonReply(200, "", [query |-> payload.query, results |-> <<>>]))
       ELSE IF payload.url = ""
       THEN Reply(JsonReply(400, "url is required", <<>>))
       ELSE IF ~IsPublicHttpUrl(payload.url)
       THEN Reply(JsonReply(400, "Invalid or blocked URL", <<>>))
       ELSE Await(FetchJob("proxy", payload.url, payload.action),
                  FetchRequest(payload.url, TRUE))
    /\ served' = served + 1
    /\ UNCHANGED <<qdrant, uuid_count>>
    /\ KnowledgeFrame
Proxy == served < MaxServed /\ \E payload \in ProxyPayloads : ProxyOn(payload)

\* fetch_page without the check of lines 1063-1064
FetchPageOnUnfiltered(payload) ==
    /\ job = NoJob
    /\ request' = Received("fetch_page", payload)
    /\ LET url == Strip(payload.url)
       IN  IF url = ""
           THEN Reply(JsonReply(400, "url is required", <<>>))
           ELSE Await(FetchJob("fetch_page", url, ""), FetchRequest(url, TRUE))
    /\ served' = served + 1
    /\ UNCHANGED <<qdrant, uuid_count>>
    /\ KnowledgeFrame

\* POST /api/fetch-page: lines 1059-1070
FetchPageOn(payload) ==
    /\ job = NoJob
    /\ request' = Received("fetch_page", payload)
    /\ LET url == Strip(payload.url)
       IN  IF url = ""
           THEN Reply(JsonReply(400, "url is required", <<>>))
           ELSE IF ~IsPublicHttpUrl(url)
           THEN Reply(JsonReply(400, "Invalid or blocked URL", <<>>))
           ELSE Await(FetchJob("fetch_page", url, ""), FetchRequest(url, TRUE))
    /\ served' = served + 1
    /\ UNCHANGED <<qdrant, uuid_count>>
    /\ KnowledgeFrame
FetchPage == served < MaxServed /\ \E payload \in FetchPagePayloads : FetchPageOn(payload)

\* the fetch of proxy (line 924) or fetch_page (line 1070) comes back:
\* lines 925-949 or 1071-1086. A ConnectError that names a certificate
\* failure is answered by a second fetch without certificate verification
FetchReturnOn(handler, o) ==
    /\ job.handler = handler
    /\ job.pc = "fetch"
    /\ IF o.kind = "page" THEN Reply(PageReply(job, o))
       ELSE IF o.type = "ConnectError" /\ Contains(o.message, "CERTIFICATE_VERIFY_FAILED")
       THEN Await([job EXCEPT !.pc = "fetch_insecure"], FetchRequest(job.url, FALSE))
       ELSE Reply(JsonReply(500, o.message, <<>>))
    /\ request' = NoRequest
    /\ UNCHANGED <<qdrant, uuid_count, served>>
    /\ KnowledgeFrame
ProxyFetchReturn == \E o \in FetchOutcomes : FetchReturnOn("proxy", o)
FetchPageFetchReturn == \E o \in FetchOutcomes : FetchReturnOn("fetch_page", o)

\* the second fetch (line 933 or 1076) comes back
InsecureFetchReturnOn(handler, o) ==
    /\ job.handler = handler
    /\ job.pc = "fetch_insecure"
    /\ IF o.kind = "page" THEN Reply(PageReply(job, o))
       ELSE Reply(JsonReply(500, o.message, <<>>))
    /\ request' = NoRequest
    /\ UNCHANGED <<qdrant, uuid_count, served>>
    /\ KnowledgeFrame
ProxyInsecureFetchReturn == \E o \in FetchOutcomes : InsecureFetchReturnOn("proxy", o)
FetchPageInsecureFetchReturn == \E o \in FetchOutcomes : InsecureFetchReturnOn("fetch_page", o)

InitKnowledge ==
    /\ OLLAMA_FAILURE_COUNT = 0
    /\ OLLAMA_CIRCUIT_OPEN_UNTIL = 0
    /\ MOONSHOT_API_KEY = ""
    /\ now = 0
    /\ pc = [r \in Requests |-> "idle"]
    /\ frame = [r \in Requests |-> NoFrame]
    /\ result = NoResult
    /\ failedSinceSuccess = 0
    /\ trippedAt = -1
    /\ route_args = <<>>
    /\ use_cloud = <<>>
    /\ caller = [r \in Requests |-> NoCaller]
    /\ response = NoResponse
    /\ raw_url = [url |-> "", parts |-> <<>>]
    /\ is_public = None
    /\ document_text = ""
    /\ chunks = None
    /\ OPENAI_API_KEY \in {"", "sk-openai"}
    /\ qdrant \in {NoStore, Store(Some(EMBEDDING_DIMENSION), <<>>)}
    /\ uuid_count = 0
    /\ served = 0
    /\ request = NoRequest
    /\ job = NoJob
    /\ outbound = <<>>
    /\ NoPresence
    /\ NoStream

NextKnowledge ==
    \/ Ingest
    \/ IngestFetchReturn
    \/ CollectionCheckReturn
    \/ CollectionPutReturn
    \/ EmbedOllamaReturn
    \/ EmbedOpenAiReturn
    \/ UpsertReturn
    \/ Proxy
    \/ ProxyFetchReturn
    \/ ProxyInsecureFetchReturn
    \/ FetchPage
    \/ FetchPageFetchReturn
    \/ FetchPageInsecureFetchReturn

SpecKnowledge == InitKnowledge /\ [][NextKnowledge]_vars

\* ingest requests one after the other, of a text of one chunk or of a text
\* of two, into a store that keeps what it is sent
RepeatedPayloads ==
    { IngestPayload(TRUE, t, "", "", "Notes") :
        t \in {"A short note.", Cycle("lorem ipsum ", 700)} }
IngestRepeated ==
    served < MaxIngests /\ \E payload \in RepeatedPayloads : IngestOn(payload)

NextIngest ==
    \/ IngestRepeated
    \/ CollectionCheckReturn
    \/ CollectionPutReturn
    \/ EmbedOllamaReturn
    \/ EmbedOpenAiReturn
    \/ UpsertReturn

SpecIngest == InitKnowledge /\ [][NextIngest]_vars

\* a URL is given and the filter does not pass it
Blocked(url) == url # "" /\ ~IsPublicHttpUrl(url)
\* the request was answered with a 400 and nothing was sent out
Refused ==
    /\ response.status_code = 400
    /\ job = NoJob
    /\ outbound = <<>>

-----------------------------------------------------------------------------
(* Claims C22..C24: what ingest stores                                     *)

\* the step is _get_embedding returning nothing for a chunk: the local
\* backend gave no embedding and there is no key for the cloud, or the cloud
\* gave none either
ChunkEmbeddingFailed ==
    /\ job.handler = "local_ai_knowledge_ingest"
    /\ job.context = "chunk"
    /\ \/ /\ OPENAI_API_KEY = ""
          /\ \E o \in OllamaEmbeddingOutcomes :
                ~(o.kind = "ok" /\ o.dim > 0) /\ EmbedOllamaReturnOn(o)
       \/ \E o \in OpenAiEmbeddingOutcomes :
             ~(o.kind = "ok" /\ o.dim > 0) /\ EmbedOpenAiReturnOn(o)
\* the step is _get_embedding returning an embedding for a chunk
ChunkEmbedded ==
    /\ job.handler = "local_ai_knowledge_ingest"
    /\ job.context = "chunk"
    /\ \/ \E o \in OllamaEmbeddingOutcomes :
             o.kind = "ok" /\ o.dim > 0 /\ EmbedOllamaReturnOn(o)
       \/ \E o \in OpenAiEmbeddingOutcomes :
             o.kind = "ok" /\ o.dim > 0 /\ EmbedOpenAiReturnOn(o)
\* the step answers the ingest request with a 200
IngestAnswered ==
    /\ job.handler = "local_ai_knowledge_ingest"
    /\ response'.status_code = 200

\* C22: a chunk whose embedding fails on the local backend and on the cloud
\* fallback is skipped, no point being made for it and the request going on
\* to the next chunk, to the store or to its answer, which is no error; each
\* chunk that is embedded makes one point; and the chunk count of the answer
\* is the number of points made, all of which the store has taken in, and
\* nothing else.
C22_PartialIngestion ==
    [][ /\ ChunkEmbeddingFailed
           => /\ response'.status_code \in {0, 200}
              /\ IF job' = NoJob
                 THEN job.points = <<>> /\ response'.body.chunks = 0
                 ELSE /\ job'.points = job.points
                      /\ job'.ingested_count = job.ingested_count
                      /\ \/ job'.pc = "embed_ollama" /\ job'.i = job.i + 1
                         \/ job'.pc = "upsert" /\ job.i + 1 = Len(job.chunks)
        /\ ChunkEmbedded
           => /\ Len(job'.points) = Len(job.points) + 1
              /\ job'.ingested_count = job.ingested_count + 1
        /\ IngestAnswered
           => /\ response'.body.chunks = Len(job.points)
              /\ response'.body.chunks = job.ingested_count
              /\ \A k \in 1..Len(job.points) :
                    /\ job.points[k].id \in DOMAIN qdrant'.points
                    /\ qdrant'.points[job.points[k].id] = job.points[k]
              /\ Cardinality(DOMAIN qdrant'.points)
                    = Cardinality(DOMAIN qdrant.points) + Len(job.points) ]_vars

\* a text of two chunks was ingested with one chunk skipped: the answer
\* counts one chunk and the store holds one point
C22_Witness ==
    /\ request = NoRequest
    /\ response.status_code = 200
    /\ response.body.totalLength = 700
    /\ response.body.chunks = 1
    /\ Cardinality(DOMAIN qdrant.points) = 1

\* C23: ingest does not deduplicate: the points of an ingest that is
\* answered are stored under identifiers that differ from each other and from
\* every identifier in the store, so that every record the store held is
\* still there as it was and the store has grown by the chunk count of the
\* answer; a text ingested twice is stored twice.
C23_NoDeduplication ==
    [][ IngestAnswered
        => /\ \A k, l \in 1..Len(job.points) :
                 job.points[k].id = job.points[l].id => k = l
           /\ \A k \in 1..Len(job.points) : job.points[k].id \notin DOMAIN qdrant.points
           /\ \A id \in DOMAIN qdrant.points :
                 id \in DOMAIN qdrant'.points /\ qdrant'.points[id] = qdrant.points[id]
           /\ Cardinality(DOMAIN qdrant'.points)
                 = Cardinality(DOMAIN qdrant.points) + response'.body.chunks ]_vars

\* the text of two chunks was ingested twice with every embedding
\* succeeding: the store holds four points, each chunk twice
C23_Witness ==
    /\ served = 2
    /\ response.status_code = 200
    /\ response.body.chunks = 2
    /\ Cardinality(DOMAIN qdrant.points) = 4
    /\ \A id \in DOMAIN qdrant.points :
          \E other \in DOMAIN qdrant.points \ {id} :
             /\ qdrant.points[other].text = qdrant.points[id].text
             /\ qdrant.points[other].chunk_index = qdrant.points[id].chunk_index

\* C24: every point in the store has a vector of the size the collection
\* was created with.
C24_VectorsFitCollection ==
    \A id \in DOMAIN qdrant.points :
       /\ qdrant.size # None
       /\ qdrant.points[id].vector = qdrant.size[1]


-----------------------------------------------------------------------------
(* Presence and notifications over Socket.IO (lines 1448-1630)             *)

UserIds == {"u1", "u2"}

\* notifications sent in SpecPresence, by event and by the REST endpoint
MaxNotifications == 1

\* a dict in insertion order, as Python keeps it: entries of a key and a value
DictHas(d, k) == \E i \in DOMAIN d : d[i].key = k
DictGet(d, k) == d[CHOOSE i \in DOMAIN d : d[i].key = k].value
DictSet(d, k, v) ==
    IF DictHas(d, k)
    THEN [i \in DOMAIN d |-> IF d[i].key = k THEN [key |-> k, value |-> v] ELSE d[i]]
    ELSE Append(d, [key |-> k, value |-> v])
DictDel(d, k) == SelectSeq(d, LAMBDA e : e.key # k)
DictKeys(d) == { d[i].key : i \in DOMAIN d }
DictValues(d) == [i \in DOMAIN d |-> d[i].value]
\* d.update(e) of two records
DictUpdate(d, e) ==
    [k \in DOMAIN d \cup DOMAIN e |-> IF k \in DOMAIN e THEN e[k] ELSE d[k]]

\* data.get(key, default) of a field that is given (Some) or not (None)
GetOr(field, default) == IF field = None THEN default ELSE field[1]

\* sio.emit(event, data, room=..., skip_sid=...): to the session of the room,
\* or to every session but skip_sid; live is the sessions with an open transport
Emit(event, data, room, skip_sid, live) ==
    [event |-> event, data |-> data, room |-> room, skip_sid |-> skip_sid,
     to |-> IF room # None THEN {room[1]} \cap live
            ELSE live \ (IF skip_sid # None THEN {skip_sid[1]} ELSE {})]

\* what the handlers of this section leave alone
HubFrame ==
    UNCHANGED <<breakerVars, MOONSHOT_API_KEY, requestVars, result, historyVars,
                routeVars, caller, raw_url, is_public, document_text, chunks,
                OPENAI_API_KEY, qdrant, served, job, outbound, event_stream>>

\* the step just taken received the event from session sid with data; the
\* socket events do not answer an HTTP request
Event(name, sid, data) ==
    /\ request' = Received(name, [sid |-> sid, data |-> data])
    /\ response' = NoResponse
\* the step just taken received nothing: a handler went on after its emit
Resumed ==
    /\ request' = NoRequest
    /\ response' = NoResponse

\* lines 1451-1455: the session as connect registers it
Session(connected_at) ==
    [connected_at |-> connected_at, user_id |-> None, user_name |-> None]

\* mutant: the snapshot goes to every connection
ConnectOnSyncingAll(sid) ==
    /\ sid \notin sockets
    /\ ~DictHas(connected_clients, sid)
    /\ sio_pc[sid] = "idle"
    /\ sockets' = sockets \cup {sid}
    /\ connected_clients' = DictSet(connected_clients, sid, Session(now))
    /\ emitted' = << Emit("presence_sync", DictValues(presence_data), None, None,
                          sockets') >>
    /\ sio_pc' = [sio_pc EXCEPT ![sid] = "user_connected"]
    /\ Event("connect", sid, None)
    /\ UNCHANGED <<presence_data, leaves, written_by, now, uuid_count>>
    /\ HubFrame

\* connect, lines 1448-1459: the session is registered and sent the snapshot
ConnectOn(sid) ==
    /\ sid \notin sockets
    /\ ~DictHas(connected_clients, sid)
    /\ sio_pc[sid] = "idle"
    /\ sockets' = sockets \cup {sid}
    /\ connected_clients' = DictSet(connected_clients, sid, Session(now))
    /\ emitted' = << Emit("presence_sync", DictValues(presence_data), Some(sid), None,
                          sockets') >>
    /\ sio_pc' = [sio_pc EXCEPT ![sid] = "user_connected"]
    /\ Event("connect", sid, None)
    /\ UNCHANGED <<presence_data, leaves, written_by, now, uuid_count>>
    /\ HubFrame

Connect == \E sid \in Sids : ConnectOn(sid)

\* connect, lines 1461-1462: the count is read after the snapshot was sent
UserConnectedOn(sid) ==
    /\ sio_pc[sid] = "user_connected"
    /\ emitted' = << Emit("user_connected",
                          [sid |-> sid, count |-> Len(connected_clients)],
                          None, None, sockets) >>
    /\ sio_pc' = [sio_pc EXCEPT ![sid] = "idle"]
    /\ Resumed
    /\ UNCHANGED <<sockets, connected_clients, presence_data, leaves, written_by,
                   now, uuid_count>>
    /\ HubFrame

UserConnected == \E sid \in Sids : UserConnectedOn(sid)

\* disconnect, lines 1479-1483: the session is forgotten and the count sent
ForgetSession(sid, live) ==
    /\ connected_clients' = DictDel(connected_clients, sid)
    /\ emitted' = << Emit("user_disconnected",
                          [sid |-> sid, count |-> Len(connected_clients')],
                          None, None, live) >>
    /\ sio_pc' = [sio_pc EXCEPT ![sid] = "idle"]

\* disconnect, lines 1465-1477: the record of the userId the session is bound
\* to is deleted and its leave broadcast; without one the handler goes on to
\* line 1479 without an await
DisconnectOn(sid) ==
    /\ sid \in sockets
    /\ sio_pc[sid] = "idle"
    /\ sockets' = sockets \ {sid}
    /\ LET client_info == IF DictHas(connected_clients, sid)
                          THEN DictGet(connected_clients, sid) ELSE Session(0)
           user_id == client_info.user_id
       IN  IF Truthy(user_id) /\ DictHas(presence_data, user_id)
           THEN /\ presence_data' = DictDel(presence_data, user_id)
                /\ emitted' = << Emit("presence_leave", [userId |-> user_id],
                                      None, None, sockets') >>
                /\ sio_pc' = [sio_pc EXCEPT ![sid] = "user_disconnected"]
                /\ leaves' = leaves \cup {user_id}
                /\ written_by' = { w \in written_by : w.sid # sid /\ w.user_id # user_id }
                /\ UNCHANGED connected_clients
           ELSE /\ ForgetSession(sid, sockets \ {sid})
                /\ written_by' = { w \in written_by : w.sid # sid }
                /\ UNCHANGED <<presence_data, leaves>>
    /\ Event("disconnect", sid, None)
    /\ UNCHANGED <<now, uuid_count>>
    /\ HubFrame

Disconnect == \E sid \in Sids : DisconnectOn(sid)

\* disconnect, lines 1479-1483, after the leave was sent
UserDisconnectedOn(sid) ==
    /\ sio_pc[sid] = "user_disconnected"
    /\ ForgetSession(sid, sockets)
    /\ Resumed
    /\ UNCHANGED <<sockets, presence_data, leaves, written_by, now,
                   uuid_count>>
    /\ HubFrame

UserDisconnected == \E sid \in Sids : UserDisconnectedOn(sid)

\* a session sends an event once its connect handler has returned
Sending(sid) == sid \in sockets /\ sio_pc[sid] = "idle"

\* the data of a presence_join event
JoinData(userId, name, email, color, status, currentView, currentFile) ==
    [userId |-> userId, name |-> name, email |-> email, color |-> color,
     status |-> status, currentView |-> currentView, currentFile |-> currentFile]
JoinEvents ==
    { JoinData(Some(u), Some("Ada"), None, None, None, Some("editor"), None) :
        u \in UserIds }
    \cup { JoinData(None, None, None, None, None, None, None) }

\* lines 1490-1499
UserData(data, lastSeen) ==
    [id |-> data.userId,
     name |-> GetOr(data.name, "Anonymous"),
     email |-> GetOr(data.email, ""),
     color |-> GetOr(data.color, "#d9a07a"),
     status |-> GetOr(data.status, "online"),
     currentView |-> data.currentView,
     currentFile |-> data.currentFile,
     lastSeen |-> lastSeen]

\* mutant: a join for a userId that has a record keeps the record
PresenceJoinOnKeepingRecord(sid, data) ==
    /\ Sending(sid)
    /\ LET user_id == data.userId
           user_data == UserData(data, now)
       IN  /\ connected_clients' =
                 IF DictHas(connected_clients, sid)
                 THEN DictSet(connected_clients, sid,
                              [DictGet(connected_clients, sid) EXCEPT
                                  !.user_id = user_id,
                                  !.user_name = Some(user_data.name)])
                 ELSE connected_clients
           /\ presence_data' = IF DictHas(presence_data, user_id) THEN presence_data
                               ELSE DictSet(presence_data, user_id, user_data)
           /\ emitted' = << Emit("presence_update", user_data, None, None, sockets) >>
           /\ leaves' = leaves \ {user_id}
           /\ written_by' = { w \in written_by : w.user_id # user_id }
                             \cup (IF Truthy(user_id)
                                   THEN {[user_id |-> user_id, sid |-> sid]} ELSE {})
    /\ Event("presence_join", sid, data)
    /\ UNCHANGED <<sockets, sio_pc, now, uuid_count>>
    /\ HubFrame

\* presence_join, lines 1486-1511
PresenceJoinOn(sid, data) ==
    /\ Sending(sid)
    /\ LET user_id == data.userId
           user_data == UserData(data, now)
       IN  /\ connected_clients' =
                 IF DictHas(connected_clients, sid)
                 THEN DictSet(connected_clients, sid,
                              [DictGet(connected_clients, sid) EXCEPT
                                  !.user_id = user_id,
                                  !.user_name = Some(user_data.name)])
                 ELSE connected_clients
           /\ presence_data' = DictSet(presence_data, user_id, user_data)
           /\ emitted' = << Emit("presence_update", user_data, None, None, sockets) >>
           /\ leaves' = leaves \ {user_id}
           /\ written_by' = { w \in written_by : w.user_id # user_id }
                             \cup (IF Truthy(user_id)
                                   THEN {[user_id |-> user_id, sid |-> sid]} ELSE {})
    /\ Event("presence_join", sid, data)
    /\ UNCHANGED <<sockets, sio_pc, now, uuid_count>>
    /\ HubFrame

PresenceJoin == \E sid \in Sids, data \in JoinEvents : PresenceJoinOn(sid, data)

\* the data of a presence_update event
UpdateData(userId, cursor, selection, activity, isTyping, typingIn, currentView,
           currentFile) ==
    [userId |-> userId, cursor |-> cursor, selection |-> selection,
     activity |-> activity, isTyping |-> isTyping, typingIn |-> typingIn,
     currentView |-> currentView, currentFile |-> currentFile]
UpdateEvents ==
    { UpdateData(userId, Some("12:4"), None, None, None, None, None, None) :
        userId \in {None} \cup { Some(u) : u \in UserIds } }

\* lines 1519-1528: the fields presence_update writes
UpdateFields(data, lastSeen) ==
    [cursor |-> data.cursor,
     selection |-> data.selection,
     activity |-> GetOr(data.activity, "idle"),
     isTyping |-> GetOr(data.isTyping, FALSE),
     typingIn |-> data.typingIn,
     currentView |-> data.currentView,
     currentFile |-> data.currentFile,
     lastSeen |-> lastSeen]

\* mutant: an update for a userId without a record creates the record
PresenceUpdateOnUpserting(sid, data) ==
    /\ Sending(sid)
    /\ LET user_id == data.userId
       IN  IF Truthy(user_id)
           THEN /\ presence_data' =
                      DictSet(presence_data, user_id,
                              IF DictHas(presence_data, user_id)
                              THEN DictUpdate(DictGet(presence_data, user_id),
                                              UpdateFields(data, now))
                              ELSE UpdateFields(data, now))
                /\ emitted' = << Emit("presence_update",
                                      DictGet(presence_data', user_id),
                                      None, Some(sid), sockets) >>
           ELSE /\ emitted' = <<>>
                /\ UNCHANGED presence_data
    /\ Event("presence_update", sid, data)
    /\ UNCHANGED <<sockets, connected_clients, sio_pc, leaves, written_by, now,
                   uuid_count>>
    /\ HubFrame

\* presence_update, lines 1514-1531
PresenceUpdateOn(sid, data) ==
    /\ Sending(sid)
    /\ LET user_id == data.userId
       IN  IF Truthy(user_id) /\ DictHas(presence_data, user_id)
           THEN /\ presence_data' =
                      DictSet(presence_data, user_id,
                              DictUpdate(DictGet(presence_data, user_id),
                                         UpdateFields(data, now)))
                /\ emitted' = << Emit("presence_update",
                                      DictGet(presence_data', user_id),
                                      None, Some(sid), sockets) >>
           ELSE /\ emitted' = <<>>
                /\ UNCHANGED presence_data
    /\ Event("presence_update", sid, data)
    /\ UNCHANGED <<sockets, connected_clients, sio_pc, leaves, written_by, now,
                   uuid_count>>
    /\ HubFrame

PresenceUpdate == \E sid \in Sids, data \in UpdateEvents : PresenceUpdateOn(sid, data)

\* the data of a presence_leave event
LeaveEvents == { [userId |-> userId] : userId \in {None} \cup { Some(u) : u \in UserIds } }

\* presence_leave, lines 1534-1540
PresenceLeaveOn(sid, data) ==
    /\ Sending(sid)
    /\ LET user_id == data.userId
       IN  IF Truthy(user_id) /\ DictHas(presence_data, user_id)
           THEN /\ presence_data' = DictDel(presence_data, user_id)
                /\ emitted' = << Emit("presence_leave", [userId |-> user_id],
                                      None, None, sockets) >>
                /\ leaves' = leaves \cup {user_id}
                /\ written_by' = { w \in written_by : w.user_id # user_id }
           ELSE /\ emitted' = <<>>
                /\ UNCHANGED <<presence_data, leaves, written_by>>
    /\ Event("presence_leave", sid, data)
    /\ UNCHANGED <<sockets, connected_clients, sio_pc, now, uuid_count>>
    /\ HubFrame

PresenceLeave == \E sid \in Sids, data \in LeaveEvents : PresenceLeaveOn(sid, data)

\* the data of a notification event, and the payload of send_notification
NotifyData(type, title, message, userId, userName, userColor, targetUserId) ==
    [type |-> type, title |-> title, message |-> message, userId |-> userId,
     userName |-> userName, userColor |-> userColor, targetUserId |-> targetUserId]
NotifyEvents ==
    { NotifyData(None, Some("Build finished"), None, None, None, None, target) :
        target \in {None} \cup { Some(u) : u \in UserIds } }

\* lines 1546-1555 and 1610-1619
NotificationData(data, id, timestamp) ==
    [id |-> id,
     type |-> GetOr(data.type, "info"),
     title |-> GetOr(data.title, ""),
     message |-> GetOr(data.message, ""),
     timestamp |-> timestamp,
     userId |-> data.userId,
     userName |-> data.userName,
     userColor |-> data.userColor]

\* lines 1561-1562 and 1624-1625: the sessions the loop passes, in the order of
\* the dict, that are bound to the target
BoundTo(target_user) ==
    SelectSeq(connected_clients, LAMBDA e : e.value.user_id = target_user)

\* mutant: without a session bound to the target the notification goes to all
NotifyAllWhenUnbound(data) ==
    LET notification_data == NotificationData(data, uuid_count + 1, now)
        target_user == data.targetUserId
    IN  IF Truthy(target_user) /\ BoundTo(target_user) # <<>>
        THEN << Emit("notification", notification_data,
                     Some(BoundTo(target_user)[1].key), None, sockets) >>
        ELSE << Emit("notification", notification_data, None, None, sockets) >>

\* lines 1558-1567 and 1621-1629: the notification goes to the first session
\* bound to the target, to nobody when there is none, to all without a target
Notify(data) ==
    LET notification_data == NotificationData(data, uuid_count + 1, now)
        target_user == data.targetUserId
    IN  IF Truthy(target_user)
        THEN IF BoundTo(target_user) # <<>>
             THEN << Emit("notification", notification_data,
                          Some(BoundTo(target_user)[1].key), None, sockets) >>
             ELSE <<>>
        ELSE << Emit("notification", notification_data, None, None, sockets) >>

\* notification, lines 1543-1567
NotificationOn(sid, data) ==
    /\ Sending(sid)
    /\ uuid_count' = uuid_count + 1
    /\ emitted' = Notify(data)
    /\ Event("notification", sid, data)
    /\ UNCHANGED <<sockets, connected_clients, presence_data, sio_pc, leaves,
                   written_by, now>>
    /\ HubFrame

Notification ==
    /\ uuid_count < MaxNotifications
    /\ \E sid \in Sids, data \in NotifyEvents : NotificationOn(sid, data)

\* the data of a typing_start and of a typing_stop event
TypingData(userId, userName, location) ==
    [userId |-> userId, userName |-> userName, location |-> location]
TypingEvents == { TypingData(Some("u1"), Some("Ada"), None) }

\* mutant: the typing indicator is kept in the record of the userId
TypingStartOnKeepingState(sid, data) ==
    /\ Sending(sid)
    /\ emitted' = << Emit("typing_start",
                          [userId |-> data.userId, userName |-> data.userName,
                           location |-> GetOr(data.location, "chat")],
                          None, Some(sid), sockets) >>
    /\ presence_data' =
          IF DictHas(presence_data, data.userId)
          THEN DictSet(presence_data, data.userId,
                       DictUpdate(DictGet(presence_data, data.userId), [isTyping |-> TRUE]))
          ELSE presence_data
    /\ Event("typing_start", sid, data)
    /\ UNCHANGED <<sockets, connected_clients, sio_pc, leaves, written_by,
                   now, uuid_count>>
    /\ HubFrame

\* typing_start, lines 1588-1595
TypingStartOn(sid, data) ==
    /\ Sending(sid)
    /\ emitted' = << Emit("typing_start",
                          [userId |-> data.userId, userName |-> data.userName,
                           location |-> GetOr(data.location, "chat")],
                          None, Some(sid), sockets) >>
    /\ Event("typing_start", sid, data)
    /\ UNCHANGED <<sockets, connected_clients, presence_data, sio_pc, leaves, written_by,
                   now, uuid_count>>
    /\ HubFrame

TypingStart == \E sid \in Sids, data \in TypingEvents : TypingStartOn(sid, data)

\* typing_stop, lines 1598-1603
TypingStopOn(sid, data) ==
    /\ Sending(sid)
    /\ emitted' = << Emit("typing_stop", [userId |-> data.userId],
                          None, Some(sid), sockets) >>
    /\ Event("typing_stop", sid, data)
    /\ UNCHANGED <<sockets, connected_clients, presence_data, sio_pc, leaves, written_by,
                   now, uuid_count>>
    /\ HubFrame

TypingStop == \E sid \in Sids, data \in TypingEvents : TypingStopOn(sid, data)

\* send_notification, lines 1607-1627: as notification; without a session bound
\* to the target it returns at once
SendNotificationOn(payload) ==
    /\ sio_pc["send_notification"] = "idle"
    /\ request' = Received("send_notification", payload)
    /\ uuid_count' = uuid_count + 1
    /\ emitted' = Notify(payload)
    /\ IF emitted' = <<>>
       THEN /\ response' = JsonReply(200, "", [success |-> TRUE, sent |-> FALSE,
                                               reason |-> "user_not_connected"])
            /\ UNCHANGED sio_pc
       ELSE /\ response' = NoResponse
            /\ sio_pc' = [sio_pc EXCEPT
                             !["send_notification"] =
                                 IF Truthy(payload.targetUserId) THEN "user" ELSE "broadcast"]
    /\ UNCHANGED <<sockets, connected_clients, presence_data, leaves,
                   written_by, now>>
    /\ HubFrame

SendNotification ==
    /\ uuid_count < MaxNotifications
    /\ \E payload \in NotifyEvents : SendNotificationOn(payload)

\* send_notification, lines 1626 and 1629: what it returns once the emit is done
SendNotificationReturn ==
    /\ sio_pc["send_notification"] # "idle"
    /\ response' =
          IF sio_pc["send_notification"] = "user"
          THEN JsonReply(200, "", [success |-> TRUE, sent |-> TRUE, target |-> "user"])
          ELSE JsonReply(200, "", [success |-> TRUE, sent |-> TRUE, target |-> "broadcast",
                                   recipients |-> Len(connected_clients)])
    /\ sio_pc' = [sio_pc EXCEPT !["send_notification"] = "idle"]
    /\ request' = NoRequest
    /\ emitted' = <<>>
    /\ UNCHANGED <<sockets, connected_clients, presence_data, leaves,
                   written_by, now, uuid_count>>
    /\ HubFrame

InitPresence ==
    /\ OLLAMA_FAILURE_COUNT = 0
    /\ OLLAMA_CIRCUIT_OPEN_UNTIL = 0
    /\ MOONSHOT_API_KEY = ""
    /\ now = 0
    /\ pc = [r \in Requests |-> "idle"]
    /\ frame = [r \in Requests |-> NoFrame]
    /\ result = NoResult
    /\ failedSinceSuccess = 0
    /\ trippedAt = -1
    /\ route_args = <<>>
    /\ use_cloud = <<>>
    /\ caller = [r \in Requests |-> NoCaller]
    /\ response = NoResponse
    /\ NoKnowledge

NextPresence ==
    \/ Connect
    \/ UserConnected
    \/ Disconnect
    \/ UserDisconnected
    \/ PresenceJoin
    \/ PresenceUpdate
    \/ PresenceLeave
    \/ TypingStart
    \/ TypingStop

SpecPresence == InitPresence /\ [][NextPresence]_vars

\* notifications among the events that change what the sessions are bound to
NextNotify ==
    \/ Connect
    \/ UserConnected
    \/ Disconnect
    \/ UserDisconnected
    \/ PresenceJoin
    \/ Notification
    \/ SendNotification
    \/ SendNotificationReturn

SpecNotify == InitPresence /\ [][NextNotify]_vars


-----------------------------------------------------------------------------
(* Claims about presence and notifications                                 *)

\* the transport of session sid closes in this step
Disconnects(sid) == sid \in sockets /\ sid \notin sockets'

\* the sessions with an open transport that are bound to user_id
OpenSessionsOf(user_id) ==
    { sid \in sockets : /\ DictHas(connected_clients, sid)
                        /\ DictGet(connected_clients, sid).user_id = user_id }

\* C25: when a session disconnects, every userId it joined with whose record
\* is still the one this session wrote (nobody joined with the userId since,
\* nobody sent its leave) has no record from then on, so that it is in no
\* snapshot that connect sends (line 1459 sends the records there are) until
\* it joins again, and its presence_leave has been broadcast.
C25_GoneAfterDisconnect ==
    [][\A sid \in Sids :
          Disconnects(sid)
          => \A w \in written_by :
                w.sid = sid
                => /\ ~DictHas(presence_data', w.user_id)
                   /\ w.user_id \in leaves']_vars

\* the event the step just taken received from a session, and its userId
Handled(name) == request.handler = name
HandledUserId == request.payload.data.userId

\* C26: a presence_update for a userId that has no record changes no record,
\* creates none, changes no session and emits nothing, whatever happened
\* before (the userId never joined, left, or its session disconnected).
C26_UpdateOfUnknownUser ==
    [][(/\ Handled("presence_update")'
        /\ ~DictHas(presence_data, HandledUserId'))
       => /\ presence_data' = presence_data
          /\ connected_clients' = connected_clients
          /\ emitted' = <<>>]_vars

\* C26 happens: an update for a userId whose leave was broadcast and that has
\* not joined since was received, nothing was emitted and there is no record
C26_Witness ==
    /\ Handled("presence_update")
    /\ HandledUserId \in leaves
    /\ ~DictHas(presence_data, HandledUserId)
    /\ emitted = <<>>

\* the fields of a presence record that the event's data supplies a value for
Supplied(data, record) ==
    { f \in DOMAIN record \cap DOMAIN data : f # "lastSeen" /\ data[f] # None }

\* C27: a presence_update for a userId that has a record is a partial merge:
\* a field the event supplies takes the event's value, every other field of
\* the record keeps the value it had, and lastSeen becomes the time of the
\* update.
C27_PartialMerge ==
    [][(/\ Handled("presence_update")'
        /\ Truthy(HandledUserId')
        /\ DictHas(presence_data, HandledUserId'))
       => LET data == request'.payload.data
              before == DictGet(presence_data, data.userId)
              after == DictGet(presence_data', data.userId)
          IN  /\ DictHas(presence_data', data.userId)
              /\ after.lastSeen = now'
              /\ \A f \in Supplied(data, after) : after[f] = UpdateFields(data, now')[f]
              /\ \A f \in DOMAIN before \ (Supplied(data, after) \cup {"lastSeen"}) :
                    after[f] = before[f]]_vars

\* the session that sent the event the step just taken received
Sender == request.payload.sid

\* C28: a presence_leave for a userId removes the record and broadcasts the
\* leave only when the session that sent it is bound to that userId; sent by
\* a session that is not bound to it and did not write its record, it leaves
\* the record in place and emits nothing.
C28_LeaveByOwnerOnly ==
    [][(/\ Handled("presence_leave")'
        /\ DictHas(presence_data, HandledUserId')
        /\ Sender' \notin OpenSessionsOf(HandledUserId')
        /\ [user_id |-> HandledUserId', sid |-> Sender'] \notin written_by)
       => /\ presence_data' = presence_data
          /\ emitted' = <<>>]_vars

\* C29: when a session disconnects while another open session is bound to the
\* same userId and joined with it later (so that the record is the one the
\* other session wrote), the record stays.
C29_DisconnectOfFormerOwner ==
    [][\A sid \in Sids :
          LET user_id == DictGet(connected_clients, sid).user_id
          IN  (/\ Disconnects(sid)
               /\ Truthy(user_id)
               /\ DictHas(presence_data, user_id)
               /\ \E other \in OpenSessionsOf(user_id) \ {sid} :
                     [user_id |-> user_id, sid |-> other] \in written_by)
              => presence_data' = presence_data]_vars

\* the step just taken received a notification, by event or by the endpoint
Notified == Handled("notification") \/ Handled("send_notification")
NotifiedData ==
    IF Handled("notification") THEN request.payload.data ELSE request.payload

\* the sessions in connected_clients that are bound to user_id
SessionsOf(user_id) ==
    { sid \in DictKeys(connected_clients) :
         DictGet(connected_clients, sid).user_id = user_id }

\* C30: a notification with a target is emitted at most once, to the room of
\* a session bound to the target, and reaches at most that one connection;
\* when no session is bound to the target nothing is emitted, nothing is kept
\* (no session and no record changes) and the endpoint answers sent = false;
\* a notification without a target is emitted once, to all connections.
C30_TargetedNotification ==
    [][Notified'
       => LET target_user == NotifiedData'.targetUserId
          IN  /\ UNCHANGED <<connected_clients, presence_data, sockets>>
              /\ \A i \in DOMAIN emitted' : emitted'[i].event = "notification"
              /\ IF Truthy(target_user)
                 THEN /\ Len(emitted') <= 1
                      /\ \A i \in DOMAIN emitted' :
                            /\ emitted'[i].room # None
                            /\ emitted'[i].room[1] \in SessionsOf(target_user)
                            /\ emitted'[i].to \subseteq {emitted'[i].room[1]}
                      /\ SessionsOf(target_user) = {}
                         => /\ emitted' = <<>>
                            /\ Handled("send_notification")'
                               => /\ response'.status_code = 200
                                  /\ response'.body.sent = FALSE
                 ELSE /\ Len(emitted') = 1
                      /\ emitted'[1].room = None
                      /\ emitted'[1].to = sockets]_vars

\* C30 happens: with two connections open and both bound to the target, a
\* targeted notification has reached exactly one of them
C30_Witness ==
    /\ Notified
    /\ Truthy(NotifiedData.targetUserId)
    /\ Cardinality(sockets) = 2
    /\ Cardinality(SessionsOf(NotifiedData.targetUserId) \cap sockets) = 2
    /\ Len(emitted) = 1
    /\ Cardinality(emitted[1].to) = 1

\* C31: connect registers the session, sends the records there are to the new
\* connection and to no other, and then broadcasts to every connection a
\* count that is the number of registered sessions, the new one among them.
C31_ConnectSyncsAndCounts ==
    [][/\ Handled("connect")'
          => /\ DictHas(connected_clients', Sender')
             /\ DictGet(connected_clients', Sender') = Session(now)
             /\ DictKeys(connected_clients') = DictKeys(connected_clients) \cup {Sender'}
             /\ sio_pc'[Sender'] = "user_connected"
             /\ UNCHANGED presence_data
             /\ Len(emitted') = 1
             /\ emitted'[1].event = "presence_sync"
             /\ emitted'[1].data = DictValues(presence_data)
             /\ emitted'[1].to = {Sender'}
       /\ \A sid \in Sids :
             (sio_pc[sid] = "user_connected" /\ sio_pc'[sid] = "idle")
             => /\ Len(emitted') = 1
                /\ emitted'[1].event = "user_connected"
                /\ emitted'[1].data.sid = sid
                /\ sid \in DictKeys(connected_clients')
                /\ emitted'[1].data.count = Cardinality(DictKeys(connected_clients'))
                /\ emitted'[1].to = sockets'
                /\ sid \in sockets'
                /\ UNCHANGED <<connected_clients, presence_data>>
       /\ \A sid \in Sids :
             sio_pc[sid] = "user_connected" => sio_pc'[sid] \in {"user_connected", "idle"}]_vars

\* C31 happens: a session connected while another connection was open and
\* there was a record, and the snapshot went to the new connection alone
C31_Witness ==
    /\ Handled("connect")
    /\ Cardinality(sockets) = 2
    /\ Len(emitted) = 1
    /\ emitted[1].event = "presence_sync"
    /\ Len(emitted[1].data) >= 1
    /\ emitted[1].to = {Sender}

\* C32: a presence_join binds the event's userId and name to the session that
\* sent it, whatever it was bound to, and changes no other session; after it
\* there is exactly one record under the userId, the one built from the event,
\* whoever wrote a record there before; the other records are as they were;
\* and the record is broadcast to every connection, the sender included.
C32_JoinBindsAndUpserts ==
    [][Handled("presence_join")'
       => LET sid == Sender'
              data == request'.payload.data
              user_data == UserData(data, now)
          IN  /\ DictKeys(connected_clients') = DictKeys(connected_clients)
              /\ DictGet(connected_clients', sid).user_id = data.userId
              /\ DictGet(connected_clients', sid).user_name = Some(user_data.name)
              /\ \A other \in DictKeys(connected_clients) \ {sid} :
                    DictGet(connected_clients', other) = DictGet(connected_clients, other)
              /\ Cardinality({ i \in DOMAIN presence_data' :
                                  presence_data'[i].key = data.userId }) = 1
              /\ DictGet(presence_data', data.userId) = user_data
              /\ DictKeys(presence_data') = DictKeys(presence_data) \cup {data.userId}
              /\ \A k \in DictKeys(presence_data) \ {data.userId} :
                    DictGet(presence_data', k) = DictGet(presence_data, k)
              /\ emitted' = << Emit("presence_update", user_data, None, None, sockets) >>
              /\ sid \in emitted'[1].to
              /\ emitted'[1].to = sockets']_vars

\* C32 happens: a session joined with a userId that another open session is
\* bound to as well; the record is the one the sender wrote and went to both
\* connections
C32_Witness ==
    /\ Handled("presence_join")
    /\ Truthy(HandledUserId)
    /\ Cardinality(SessionsOf(HandledUserId) \cap sockets) = 2
    /\ [user_id |-> HandledUserId, sid |-> Sender] \in written_by
    /\ "cursor" \notin DOMAIN DictGet(presence_data, HandledUserId)
    /\ Len(emitted) = 1
    /\ emitted[1].to = sockets

\* C33: a typing_start and a typing_stop are emitted once, to every connection
\* but the one that sent them, and change neither a session nor a record.
C33_TypingPersistsNothing ==
    [][(Handled("typing_start")' \/ Handled("typing_stop")')
       => /\ Len(emitted') = 1
          /\ emitted'[1].event = request'.handler
          /\ emitted'[1].data.userId = HandledUserId'
          /\ emitted'[1].to = sockets \ {Sender'}
          /\ UNCHANGED <<connected_clients, presence_data, sockets, sio_pc>>]_vars

\* C33 happens: a typing_start was sent by one of two open connections, while
\* the userId has a record, and reached the other connection alone
C33_Witness ==
    /\ Handled("typing_start")
    /\ DictHas(presence_data, HandledUserId)
    /\ Cardinality(sockets) = 2
    /\ emitted[1].to = sockets \ {Sender}

-----------------------------------------------------------------------------
(* Further claims about the local call and the breaker                     *)

\* the listing of the models raised or came back with a non-success status
ListingFailures == { o \in TagsOutcomes : o.kind # "ok" }

\* C34: when the listing of the models fails, after a first attempt that came
\* back with a non-success status, the call ends there without a retry, its
\* error is the failure of the first attempt, and one failure is recorded.
C34_ListingFailureSkipsRetry ==
    [][\A r \in Requests, o \in ListingFailures :
          TagsReturnOn(r, o)
          => /\ frame[r].response_status \in ErrorStatusCodes
             /\ pc'[r] = "idle"
             /\ result' = LocalResult(None,
                              Some(ChatFailedResponse(frame[r].response_status)))
             /\ OLLAMA_FAILURE_COUNT' = OLLAMA_FAILURE_COUNT + 1
             /\ failedSinceSuccess' = failedSinceSuccess + 1
             /\ OLLAMA_CIRCUIT_OPEN_UNTIL' = OpenUntilAfterFailure(now)]_vars

\* C34 happens: a local call has just ended with the status of its first
\* attempt as its error, and this one failure, the third in a row, opened
\* the circuit
C34_Witness ==
    /\ \E c \in ErrorStatusCodes :
          result = LocalResult(None, Some(ChatFailedResponse(c)))
    /\ OLLAMA_FAILURE_COUNT = CIRCUIT_FAILURE_THRESHOLD
    /\ failedSinceSuccess = CIRCUIT_FAILURE_THRESHOLD
    /\ OLLAMA_CIRCUIT_OPEN_UNTIL = now + CIRCUIT_COOLDOWN_SECONDS

\* C35: a step that evaluates the routing decision sends no request (none
\* goes out and no call is left waiting for an answer) and changes neither the
\* breaker nor the sessions nor the presence records nor the configuration.
C35_DecisionHasNoSideEffect ==
    [][Len(use_cloud') > Len(use_cloud)
       => /\ UNCHANGED <<OLLAMA_FAILURE_COUNT, OLLAMA_CIRCUIT_OPEN_UNTIL>>
          /\ UNCHANGED <<connected_clients, presence_data, sockets>>
          /\ UNCHANGED <<pc, job, MOONSHOT_API_KEY>>
          /\ outbound' = <<>>
          /\ emitted' = <<>>]_vars

\* C35 happens: the decision was evaluated, for the cloud, while the circuit
\* was open with the threshold reached, and the breaker is still so
C35_Witness ==
    /\ Evaluated
    /\ use_cloud[Len(use_cloud)].use_cloud
    /\ use_cloud[Len(use_cloud)].circuit_open
    /\ OLLAMA_FAILURE_COUNT = CIRCUIT_FAILURE_THRESHOLD
    /\ now < OLLAMA_CIRCUIT_OPEN_UNTIL

-----------------------------------------------------------------------------
(* Further claims about chunking                                           *)

\* the slices of the text that _chunk_text stripped and kept
KeptSlices(s) ==
    LET spans == ChunkSpans(s, 0, CHUNK_SIZE, CHUNK_OVERLAP)
    IN  SelectSeq([k \in DOMAIN spans |-> Strip(Slice(s, spans[k].start, spans[k].end))],
                  NonEmpty)
\* the span was cut short of the chunk size before the end of the text
CutShort(s, span) == span.end < Len(s) /\ span.end - span.start < CHUNK_SIZE

\* C36: with chunk size 500 and overlap 50 the loop ends after at most one
\* iteration per character, every iteration starts at least one character
\* after the one before it, no chunk is longer than 500 characters, and a
\* chunk cut short of 500 characters before the end of the text ends right
\* after a period or a newline that lies past the midpoint of the chunk.
C36_ChunkingAdvancesAndCutsAtBoundaries ==
    chunks # None
    => /\ \A k \in DOMAIN chunks[1] : Len(chunks[1][k]) <= CHUNK_SIZE
       /\ Len(document_text) > CHUNK_SIZE
          => LET spans == ChunkSpans(document_text, 0, CHUNK_SIZE, CHUNK_OVERLAP)
             IN  /\ chunks[1] = KeptSlices(document_text)
                 /\ Len(spans) <= Len(document_text)
                 /\ \A k \in 2..Len(spans) : spans[k].start >= spans[k - 1].start + 1
                 /\ \A k \in DOMAIN spans :
                       /\ spans[k].end - spans[k].start <= CHUNK_SIZE
                       /\ CutShort(document_text, spans[k])
                          => /\ SubSeq(document_text, spans[k].end, spans[k].end) \in {".", "\n"}
                             /\ spans[k].end - spans[k].start - 1 > CHUNK_SIZE \div 2

\* C36 happens: a text whose only period is the 252nd character was cut
\* right after it, and one whose only period is the 251st was not
C36_Witness ==
    /\ chunks # None
    /\ \/ /\ document_text = PeriodAt(251, 1000)
          /\ chunks[1][1] = Slice(document_text, 0, 252)
          /\ chunks[1][2] = Slice(document_text, 202, 702)
       \/ /\ document_text = PeriodAt(250, 1000)
          /\ chunks[1][1] = Slice(document_text, 0, 500)

-----------------------------------------------------------------------------
(* Further claims about the breaker                                        *)

\* C37: in every state, a circuit that is open (openUntil lies in the future)
\* has a failure count of at least the threshold, and a failure count of 0
\* comes with openUntil cleared.
C37_OpenMeansThresholdReached ==
    /\ now < OLLAMA_CIRCUIT_OPEN_UNTIL
       => OLLAMA_FAILURE_COUNT >= CIRCUIT_FAILURE_THRESHOLD
    /\ OLLAMA_FAILURE_COUNT = 0 => OLLAMA_CIRCUIT_OPEN_UNTIL = 0

\* C37 happens: the circuit is open, ten seconds after the third failure in
\* a row tripped it
C37_Witness ==
    /\ now < OLLAMA_CIRCUIT_OPEN_UNTIL
    /\ OLLAMA_FAILURE_COUNT = CIRCUIT_FAILURE_THRESHOLD
    /\ trippedAt >= 0
    /\ now = trippedAt + TickStep

\* the cooldown of a tripped circuit is over and no call has succeeded since
CooldownExpired ==
    /\ OLLAMA_FAILURE_COUNT >= CIRCUIT_FAILURE_THRESHOLD
    /\ OLLAMA_CIRCUIT_OPEN_UNTIL > 0
    /\ ~(now < OLLAMA_CIRCUIT_OPEN_UNTIL)
\* the step records a failed call
FailureRecorded == failedSinceSuccess' = failedSinceSuccess + 1

\* C38: the passing of time changes neither the failure count nor openUntil,
\* and a failed call once the cooldown has expired, with no success since the
\* circuit tripped, raises the count by one beyond the threshold and opens
\* the circuit for a full cooldown from the time of that failure.
C38_OneFailureReopens ==
    [][/\ now' # now => UNCHANGED <<OLLAMA_FAILURE_COUNT, OLLAMA_CIRCUIT_OPEN_UNTIL>>
       /\ (CooldownExpired /\ FailureRecorded)
          => /\ OLLAMA_FAILURE_COUNT' = OLLAMA_FAILURE_COUNT + 1
             /\ OLLAMA_FAILURE_COUNT' > CIRCUIT_FAILURE_THRESHOLD
             /\ OLLAMA_CIRCUIT_OPEN_UNTIL' = now + CIRCUIT_COOLDOWN_SECONDS
             /\ now < OLLAMA_CIRCUIT_OPEN_UNTIL']_vars

\* C38 happens: three failures tripped the circuit, the cooldown passed, and
\* the fourth failure in a row opened it again for a full cooldown
C38_Witness ==
    /\ failedSinceSuccess = CIRCUIT_FAILURE_THRESHOLD + 1
    /\ OLLAMA_FAILURE_COUNT = CIRCUIT_FAILURE_THRESHOLD + 1
    /\ trippedAt + CIRCUIT_COOLDOWN_SECONDS <= now
    /\ OLLAMA_CIRCUIT_OPEN_UNTIL = now + CIRCUIT_COOLDOWN_SECONDS
    /\ result.err # None

-----------------------------------------------------------------------------
(* Further claims about presence                                           *)

\* every transport is closed and every handler has returned
AllDisconnected == sockets = {} /\ \A h \in Handlers : sio_pc[h] = "idle"

\* the records kept under a userId that a join supplied
RecordsOfUsers == { user_id \in DictKeys(presence_data) : Truthy(user_id) }

\* C39: every presence record of a userId is kept while a registered
\* session is bound to that userId, and once every session has disconnected
\* and its disconnect has been handled there is no session and no presence
\* record of a userId left, whatever was joined, updated and left before,
\* a second join of a session under another userId included.
C39_EmptyOnceAllDisconnected ==
    /\ AllDisconnected => (connected_clients = <<>> /\ RecordsOfUsers = {})
    /\ (\A h \in Handlers : sio_pc[h] = "idle")
       => \A user_id \in RecordsOfUsers : SessionsOf(user_id) # {}

-----------------------------------------------------------------------------
(* Streamed chat responses: event_stream and degraded_stream of chat, one  *)
(* action per yield                                                        *)

\* s.split(' '): what lies between the start, the spaces and the end of s
SplitSpaces(s) ==
    LET at == { i \in 1..Len(s) : SubSeq(s, i, i) = " " } \cup {0, Len(s) + 1}
        Nth(k) == CHOOSE i \in at : Cardinality({ j \in at : j < i }) = k
    IN  [k \in 1..(Cardinality(at) - 1) |-> SubSeq(s, Nth(k - 1) + 1, Nth(k) - 1)]

\* json.dumps of a string of printable ASCII, tabs, newlines and returns
JsonChar(c) ==
    CASE c = "\"" -> "\\\""
      [] c = "\\" -> "\\\\"
      [] c = "\n" -> "\\n"
      [] c = "\t" -> "\\t"
      [] c = "\r" -> "\\r"
      [] OTHER -> c
RECURSIVE JsonEscapeFrom(_, _)
JsonEscapeFrom(s, i) ==
    IF i > Len(s) THEN ""
    ELSE JsonChar(SubSeq(s, i, i)) \o JsonEscapeFrom(s, i + 1)
JsonEscape(s) == JsonEscapeFrom(s, 1)
JsonString(s) == "\"" \o JsonEscape(s) \o "\""

\* mutant: the word is written into the event as it is
TokenEventUnescaped(word) == "data: {\"token\": \"" \o word \o "\"}\n\n"

\* lines 852 and 861: f"data: {json.dumps({'token': word})}\n\n"
TokenEvent(word) == "data: {\"token\": " \o JsonString(word) \o "}\n\n"
\* lines 854 and 863
DONE_EVENT == "data: [DONE]\n\n"

\* the response of the handler is a StreamingResponse
Streamed == response.media_type = "text/event-stream"

StreamFrame ==
    UNCHANGED <<breakerVars, MOONSHOT_API_KEY, now, requestVars, result, historyVars,
                routeVars, serveVars, knowledgeVars, presenceVars>>

\* lines 851 and 860: the words the loop has still to yield; started, the
\* generator splits the message first
WordsToYield ==
    IF event_stream.pc = "idle" THEN SplitSpaces(response.content)
    ELSE event_stream.words

\* lines 851-853 and 860-862: the generator runs to its next yield in the loop
YieldToken ==
    /\ Streamed
    /\ event_stream.pc \in {"idle", "for"}
    /\ WordsToYield # <<>>
    /\ event_stream' = [pc |-> "for", words |-> Tail(WordsToYield),
                        body |-> event_stream.body \o TokenEvent(Head(WordsToYield))]
    /\ StreamFrame

\* lines 854 and 863: the loop is over and the generator yields the end mark
YieldDone ==
    /\ event_stream.pc = "for"
    /\ event_stream.words = <<>>
    /\ event_stream' = [event_stream EXCEPT !.pc = "done", !.body = @ \o DONE_EVENT]
    /\ StreamFrame

\* the generator returns and the response is complete
StreamReturn ==
    /\ event_stream.pc = "done"
    /\ event_stream' = [event_stream EXCEPT !.pc = "returned"]
    /\ StreamFrame

\* what the local backend answered, as chat is handed it
StreamContents ==
    {"", "pong", "hello world", "a  b", " lead", "trail ", "two\n\nparagraphs here",
     "say \"hi\" now", "[DONE]", "data: [DONE]\n\nmore", "back\\slash n", "tab\tbed",
     "one two three four five six", "x y z", "ends with a newline\n"}
ChatResults ==
    { LocalResult(Some(c), None) : c \in StreamContents }
    \cup { LocalResult(None, Some(ExceptionResponse)) }

\* chat has returned its response, streamed or not, normal or degraded
InitStream ==
    /\ OLLAMA_FAILURE_COUNT = 0
    /\ OLLAMA_CIRCUIT_OPEN_UNTIL = 0
    /\ MOONSHOT_API_KEY = ""
    /\ now = 0
    /\ pc = [r \in Requests |-> "idle"]
    /\ frame = [r \in Requests |-> NoFrame]
    /\ result = NoResult
    /\ failedSinceSuccess = 0
    /\ trippedAt = -1
    /\ route_args = <<>>
    /\ use_cloud = <<>>
    /\ caller = [r \in Requests |-> NoCaller]
    /\ response \in { ChatResponse(s, res) : s \in BOOLEAN, res \in ChatResults }
    /\ NoKnowledge

NextStream == YieldToken \/ YieldDone \/ StreamReturn

\* the event loop resumes the generator after each sleep (lines 853 and 862)
SpecStream == InitStream /\ [][NextStream]_vars /\ WF_vars(NextStream)

-----------------------------------------------------------------------------
(* Claims about streamed chat responses                                    *)

\* the first blank line of a body, 0 for none
FindBlankLine(s) ==
    LET at == { i \in 1..(Len(s) - 1) : SubSeq(s, i, i + 1) = "\n\n" }
    IN  IF at = {} THEN 0 ELSE Min(at)
\* what a client reads from a body: the events that a blank line ended, and
\* after them what no blank line has ended yet
RECURSIVE Frames(_)
Frames(s) ==
    LET d == FindBlankLine(s)
    IN  IF d = 0 THEN << s >>
        ELSE << SubSeq(s, 1, d - 1) >> \o Frames(SubSeq(s, d + 2, Len(s)))
ReadEvents(s) == SubSeq(Frames(s), 1, Len(Frames(s)) - 1)
Unfinished(s) == Frames(s)[Len(Frames(s))]

\* json.loads of the text between the quotes of a string
RECURSIVE JsonUnescape(_)
JsonUnescape(s) ==
    IF Len(s) = 0 THEN ""
    ELSE IF SubSeq(s, 1, 1) = "\\" /\ Len(s) >= 2
    THEN (CASE SubSeq(s, 2, 2) = "n" -> "\n"
            [] SubSeq(s, 2, 2) = "t" -> "\t"
            [] SubSeq(s, 2, 2) = "r" -> "\r"
            [] OTHER -> SubSeq(s, 2, 2))
         \o JsonUnescape(SubSeq(s, 3, Len(s)))
    ELSE SubSeq(s, 1, 1) \o JsonUnescape(SubSeq(s, 2, Len(s)))

IsDoneEvent(e) == e = "data: [DONE]"
IsTokenEvent(e) == StartsWith(e, "data: {\"token\": \"") /\ EndsWith(e, "\"}")
TokenOf(e) == JsonUnescape(SubSeq(e, 18, Len(e) - 2))
CountSpaces(s) == Cardinality({ i \in 1..Len(s) : SubSeq(s, i, i) = " " })

\* what the client has read of the streamed message so far is in order: whole
\* events only, each a token event or the end mark; the tokens hold no space
\* and, joined by spaces, are the message up to one of its spaces or to its
\* end; the end mark comes once, last, after all of the message, and only
\* it ends the stream
StreamInOrder ==
    Streamed
    => LET events == ReadEvents(event_stream.body)
           tokens == SelectSeq(events, IsTokenEvent)
           words  == [i \in DOMAIN tokens |-> TokenOf(tokens[i])]
           sent   == JoinSpace(words)
           ended  == event_stream.pc \in {"done", "returned"}
       IN  /\ Unfinished(event_stream.body) = ""
           /\ \A i \in DOMAIN events :
                 /\ IsTokenEvent(events[i]) \/ IsDoneEvent(events[i])
                 /\ IsDoneEvent(events[i]) => (i = Len(events) /\ ended)
           /\ \A i \in DOMAIN words : CountSpaces(words[i]) = 0
           /\ StartsWith(response.content, sent)
           /\ (words # <<>> /\ sent # response.content)
              => SubSeq(response.content, Len(sent) + 1, Len(sent) + 1) = " "
           /\ ended
              => /\ Len(events) = Len(words) + 1
                 /\ IsDoneEvent(events[Len(events)])
                 /\ sent = response.content
                 /\ Len(words) = CountSpaces(response.content) + 1

\* C40: a streamed /api/chat response, normal or degraded, sends one token
\* event for each word of the message between single spaces, in the order of
\* the message, then one [DONE] event, which is the last event, and then the
\* generator returns: every streamed response comes to that end.
C40_StreamEndsWithDone ==
    /\ []StreamInOrder
    /\ Streamed ~> (event_stream.pc = "returned")

\* C40 happens: the degraded message was streamed to its end as 18 token
\* events and the end mark
C40_Witness ==
    /\ Streamed
    /\ response.content = CHAT_FALLBACK
    /\ event_stream.pc = "returned"
    /\ Len(ReadEvents(event_stream.body)) = 19
    /\ TokenOf(ReadEvents(event_stream.body)[5]) = "unavailable."

=============================================================================
